---- MODULE Spec2Model ----
(***************************************************************************)
(* linkoverlay: the classification passes, the planner and the executor of *)
(* plugins/modules/linkoverlay.py over a model of a POSIX filesystem.      *)
(*                                                                         *)
(* A path is the sequence of its components (<<"b","d","f">> is /b/d/f,    *)
(* <<>> is /).  A symlink's text is [abs, comps]; comps may hold "..".     *)
(* The filesystem fs is a function from the existing absolute real paths   *)
(* to their entries; / itself is always a directory.                       *)
(***************************************************************************)
EXTENDS Integers, Sequences, FiniteSets, TLC

VARIABLES
    fs,          \* the disk: real path -> entry
    params,      \* module.params as the caller gave them
    check_mode,  \* module.check_mode
    platform,    \* os.supports_follow_symlinks: [lchmod, lchown]
    run,         \* number of the current invocation of main (0: none yet)
    pc,          \* position of the current invocation
    backup_dir,  \* module.params["backup_dir"] after the timestamp postfix
    tree,        \* the mapped tree: node (original_path) -> props and path
    remove,      \* to_remove, in filter order
    link,        \* to_link
    stat,        \* to_sync_stat
    idx,         \* loop index of the executor loop in progress
    result,      \* the result dictionary of the current invocation
    fs0,         \* the disk as it was when the current invocation began
    prev,        \* how the previous invocation ended, and its result
    listing,     \* the order os.listdir gave when the tree was built
    call         \* a library function applied on its own: inputs and outcome

vars == <<fs, params, check_mode, platform, run, pc, backup_dir, tree,
          remove, link, stat, idx, result, fs0, prev, listing, call>>

-----------------------------------------------------------------------------
\* Bounds of the model.
MaxRuns == 2       \* invocations of main in one behaviour
MaxFollow == 3     \* symlinks followed while resolving one path (ELOOP beyond)

-----------------------------------------------------------------------------
\* os.path on component sequences.

Parent(p) == IF p = <<>> THEN <<>> ELSE SubSeq(p, 1, Len(p) - 1)

Last(p) == p[Len(p)]

IsPrefix(a, b) == Len(a) <= Len(b) /\ SubSeq(b, 1, Len(a)) = a

RECURSIVE NormPath(_, _)
NormPath(acc, rest) ==
    IF rest = <<>> THEN acc
    ELSE IF Head(rest) = ".." THEN NormPath(Parent(acc), Tail(rest))
    ELSE NormPath(Append(acc, Head(rest)), Tail(rest))

abspath(p) == NormPath(<<>>, p)

\* osp.join(a, text): an absolute second argument discards the first.
join(a, text) == IF text.abs THEN text.comps ELSE a \o text.comps

CommonLen(a, b) ==
    CHOOSE i \in 0..Len(a) :
        /\ i <= Len(b)
        /\ SubSeq(a, 1, i) = SubSeq(b, 1, i)
        /\ \A j \in (i + 1)..Len(a) : j > Len(b) \/ SubSeq(a, 1, j) # SubSeq(b, 1, j)

\* osp.relpath(path, start); the empty sequence stands for ".".
relpath(path, start) ==
    LET p == abspath(path)
        s == abspath(start)
        i == CommonLen(p, s)
    IN  [k \in 1..(Len(s) - i) |-> ".."] \o SubSeq(p, i + 1, Len(p))

is_inside(inner, outer) == IsPrefix(abspath(outer), abspath(inner))

\* Tree.translate_path for absolute paths: osp.commonpath of two absolute
\* paths is at least "/", which is truthy, so the guard never raises.
translate_path(path, old_base, new_base) == new_base \o relpath(path, old_base)

-----------------------------------------------------------------------------
\* The filesystem.

NoText == [abs |-> FALSE, comps |-> <<>>]
AbsText(p) == [abs |-> TRUE, comps |-> p]
RelText(p) == [abs |-> FALSE, comps |-> p]

ProcUid == "u0"        \* the uid the module runs as
DefaultPerm == "p0"    \* permission bits of what the module creates (umask)

FileEntry(data, perm, uid) ==
    [kind |-> "file", text |-> NoText, perm |-> perm, uid |-> uid, data |-> data]
DirEntry(perm, uid) ==
    [kind |-> "dir", text |-> NoText, perm |-> perm, uid |-> uid, data |-> ""]
LinkEntry(text, perm, uid) ==
    [kind |-> "link", text |-> text, perm |-> perm, uid |-> uid, data |-> ""]

\* Path resolution as the kernel does it: cur is the real directory reached,
\* rest the components left; the last component is followed only when
\* follow is set.  ok is false for ENOENT/ENOTDIR/ELOOP on the way; when ok,
\* path is the real location named (which may hold nothing).
RECURSIVE Walk(_, _, _, _, _)
Walk(F, cur, rest, follow, fuel) ==
    IF rest = <<>> THEN [ok |-> TRUE, path |-> cur]
    ELSE LET c == Head(rest)
             tl == Tail(rest)
             nxt == Append(cur, c)
         IN  IF c = ".." THEN Walk(F, Parent(cur), tl, follow, fuel)
             ELSE IF nxt \notin DOMAIN F THEN [ok |-> tl = <<>>, path |-> nxt]
             ELSE IF F[nxt].kind = "link" /\ (tl # <<>> \/ follow) THEN
                 IF fuel = 0 THEN [ok |-> FALSE, path |-> nxt]
                 ELSE Walk(F, IF F[nxt].text.abs THEN <<>> ELSE cur,
                           F[nxt].text.comps \o tl, follow, fuel - 1)
             ELSE IF F[nxt].kind = "dir" THEN Walk(F, nxt, tl, follow, fuel)
             ELSE [ok |-> tl = <<>>, path |-> nxt]

Loc(F, p, follow) == Walk(F, <<>>, p, follow, MaxFollow)

KindAt(F, loc) ==
    IF ~loc.ok THEN "none"
    ELSE IF loc.path = <<>> THEN "dir"
    ELSE IF loc.path \in DOMAIN F THEN F[loc.path].kind
    ELSE "none"

lkind(F, p) == KindAt(F, Loc(F, p, FALSE))    \* os.lstat
skind(F, p) == KindAt(F, Loc(F, p, TRUE))     \* os.stat

islink(F, p) == lkind(F, p) = "link"          \* osp.islink
osp_exists(F, p) == skind(F, p) # "none"      \* osp.exists
osp_isdir(F, p) == skind(F, p) = "dir"        \* osp.isdir
osp_isfile(F, p) == skind(F, p) = "file"      \* osp.isfile

readlink(F, p) == F[Loc(F, p, FALSE).path].text

\* module_utils/linkoverlay.py
exists(F, p) == osp_exists(F, p) \/ islink(F, p)

isdir(F, p) == osp_isdir(F, p) /\ ~islink(F, p)

points_to(F, lnk, path) ==
    IF ~islink(F, lnk) THEN FALSE
    ELSE abspath(join(Parent(lnk), readlink(F, lnk))) = abspath(path)

points_into(F, lnk, path) ==
    IF ~islink(F, lnk) THEN FALSE
    ELSE is_inside(join(Parent(lnk), readlink(F, lnk)), path)

is_relative_link(F, lnk) == islink(F, lnk) /\ ~readlink(F, lnk).abs

\* os.stat(p, follow_symlinks=False): st_mode is file type and permission
\* bits, so two modes are equal only between entries of the same kind.
lstat(F, p) == F[Loc(F, p, FALSE).path]

equal_mode(F, a, b) ==
    lstat(F, a).kind = lstat(F, b).kind /\ lstat(F, a).perm = lstat(F, b).perm

equal_owner(F, a, b) == lstat(F, a).uid = lstat(F, b).uid

Put(F, x, e) == [q \in DOMAIN F \cup {x} |-> IF q = x THEN e ELSE F[q]]
Drop(F, X) == [q \in DOMAIN F \ X |-> F[q]]

Ok(F) == [ok |-> TRUE, err |-> "", fs |-> F]
Err(e, F) == [ok |-> FALSE, err |-> e, fs |-> F]

\* os.mkdir
mkdir(F, p) ==
    LET loc == Loc(F, p, FALSE)
    IN  IF ~loc.ok THEN Err("ENOENT", F)
        ELSE IF KindAt(F, loc) # "none" THEN Err("EEXIST", F)
        ELSE Ok(Put(F, loc.path, DirEntry(DefaultPerm, ProcUid)))

\* os.makedirs(name, exist_ok=True): the missing parents first (a
\* FileExistsError from them is swallowed), then the directory itself; an
\* error of the last mkdir is let through unless name is a directory.
RECURSIVE makedirs(_, _)
makedirs(F, name) ==
    LET head == Parent(name)
        r1 == IF name # <<>> /\ ~osp_exists(F, head)
              THEN makedirs(F, head) ELSE Ok(F)
    IN  IF ~r1.ok /\ r1.err # "EEXIST" THEN r1
        ELSE LET r2 == mkdir(r1.fs, name)
             IN  IF r2.ok \/ osp_isdir(r1.fs, name) THEN Ok(r2.fs) ELSE r2

\* os.symlink(text, p)
symlink(F, text, p, perm) ==
    LET loc == Loc(F, p, FALSE)
    IN  IF ~loc.ok THEN Err("ENOENT", F)
        ELSE IF KindAt(F, loc) # "none" THEN Err("EEXIST", F)
        ELSE Ok(Put(F, loc.path, LinkEntry(text, perm, ProcUid)))

\* os.unlink(p)
unlink(F, p) ==
    LET loc == Loc(F, p, FALSE)
    IN  IF KindAt(F, loc) \in {"file", "link"} /\ loc.path # <<>>
        THEN Ok(Drop(F, {loc.path}))
        ELSE Err(IF KindAt(F, loc) = "dir" THEN "EISDIR" ELSE "ENOENT", F)

\* shutil.rmtree(p): refuses a symlink, removes a real directory with all
\* it holds (never through a symlink, whose entry alone is removed).
rmtree(F, p) ==
    LET loc == Loc(F, p, FALSE)
    IN  IF KindAt(F, loc) = "dir" /\ loc.path # <<>>
        THEN Ok(Drop(F, {q \in DOMAIN F : IsPrefix(loc.path, q)}))
        ELSE Err(IF KindAt(F, loc) = "none" THEN "ENOENT" ELSE "ENOTDIR", F)

\* shutil.copy2(src, dst, follow_symlinks=False): a symlink is recreated
\* with the same text, a regular file is copied with its permission bits
\* (copystat); the owner is never copied.  lchmod says whether the mode of
\* a symlink can be set on this platform.
copy2(F, src, dst, lchmod) ==
    LET dst2 == IF osp_isdir(F, dst) THEN Append(dst, Last(src)) ELSE dst
    IN  IF islink(F, src)
        THEN symlink(F, readlink(F, src), dst2,
                     IF lchmod THEN lstat(F, src).perm ELSE DefaultPerm)
        ELSE LET s == F[Loc(F, src, TRUE).path]
                 loc == Loc(F, dst2, TRUE)
             IN  IF ~loc.ok \/ loc.path = <<>> THEN Err("ENOENT", F)
                 ELSE IF loc.path = Loc(F, src, TRUE).path THEN Err("SAMEFILE", F)
                 ELSE IF KindAt(F, loc) = "dir" THEN Err("EISDIR", F)
                 ELSE Ok(Put(F, loc.path, FileEntry(s.data, s.perm,
                        IF KindAt(F, loc) = "file" THEN F[loc.path].uid ELSE ProcUid)))

\* os.chmod / os.chown with follow_symlinks as given.
chmod(F, p, perm, follow) ==
    LET loc == Loc(F, p, follow)
    IN  IF KindAt(F, loc) = "none" \/ loc.path = <<>> THEN Err("ENOENT", F)
        ELSE Ok([F EXCEPT ![loc.path].perm = perm])

chown(F, p, uid, follow) ==
    LET loc == Loc(F, p, follow)
    IN  IF KindAt(F, loc) = "none" \/ loc.path = <<>> THEN Err("ENOENT", F)
        ELSE Ok([F EXCEPT ![loc.path].uid = uid])

\* os.walk(top): the textual paths of the non-directory entries it yields
\* (file_names joined to dir_path).  An entry that is a directory after
\* following symlinks goes to dir_names; os.walk descends into a
\* dir_name only when it is not itself a symlink.
RECURSIVE walk_files(_, _)
walk_files(F, dir_path) ==
    LET loc == Loc(F, dir_path, TRUE)
    IN  IF KindAt(F, loc) # "dir" THEN {}
        ELSE LET entries == {q \in DOMAIN F : q # <<>> /\ Parent(q) = loc.path}
                 name(q) == Append(dir_path, Last(q))
             IN  {name(q) : q \in {e \in entries : skind(F, e) # "dir"}}
                 \cup UNION {walk_files(F, name(q)) :
                                q \in {e \in entries : F[e].kind = "dir"}}

-----------------------------------------------------------------------------
\* Tree and its traversals.  A node is named by its original (overlay-side)
\* path; the synthetic root, overlay_dir itself, is not a member, since all
\* passes and filters are children-only.

\* Tree.from_path: everything that really lies under root; a symlink is a
\* leaf (nothing has a real path beneath it).
from_path(F, root) == {q \in DOMAIN F : IsPrefix(root, q) /\ q # root}

\* Tree.translate that puts every node directly under new_base.
translate_flat(F, old_base, new_base) ==
    [n \in from_path(F, old_base) |->
        [original_path |-> n,
         path |-> Append(new_base, Last(n)),
         is_dir |-> F[n].kind = "dir"]]

\* Tree.translate: the copy keeps is_dir and gets original_path and the
\* translated path.
translate(F, old_base, new_base) ==
    [n \in from_path(F, old_base) |->
        [original_path |-> n,
         path |-> translate_path(n, old_base, new_base),
         is_dir |-> F[n].kind = "dir"]]

\* Tree.set_prop on every node, the value given per node.
set_prop(T, key, value) == [n \in DOMAIN T |-> T[n] @@ (key :> value[n])]

Anc(T, n) == {a \in DOMAIN T : a # n /\ IsPrefix(a, n)}   \* strict ancestors
Sub(T, n) == {m \in DOMAIN T : IsPrefix(n, m)}            \* n and descendants

\* Tree.apply with stopping=True, run from the root's children: a node is
\* visited iff the visitor returned True on all of its strict ancestors,
\* i.e. none of them is among the nodes on which it returns False (stops).
Visited(T, n, stops) == Anc(T, n) \cap stops = {}

\* os.listdir returns the names in arbitrary order: in this order or in
\* its reverse, as the listing of the invocation says.
NameOrder == <<"b", "d", "e", "f", "g", "k", "o", "x", "y", "z", "1", "2", "3", "4">>
Orders == {"up", "down"}
Rank(s) ==
    LET i == CHOOSE j \in 1..Len(NameOrder) : NameOrder[j] = s
    IN  IF listing = "up" THEN i ELSE Len(NameOrder) - i

\* Pre-order position: a node comes before its descendants, siblings by name.
RECURSIVE Before(_, _)
Before(p, q) ==
    IF p = <<>> THEN q # <<>>
    ELSE IF q = <<>> THEN FALSE
    ELSE IF Head(p) = Head(q) THEN Before(Tail(p), Tail(q))
    ELSE Rank(Head(p)) < Rank(Head(q))

RECURSIVE PreOrder(_)
PreOrder(S) ==
    IF S = {} THEN <<>>
    ELSE LET m == CHOOSE x \in S : \A y \in S \ {x} : Before(x, y)
         IN  <<m>> \o PreOrder(S \ {m})

\* Tree.filter_children(lambda t: t.props[key])
filter_children(T, key) == PreOrder({n \in DOMAIN T : T[n][key]})

-----------------------------------------------------------------------------
\* The classifier passes, in the order main runs them.

\* mark_symlinked that also marks the symlink's own node.
mark_symlinked_self(F, T) ==
    LET stops == {n \in DOMAIN T : islink(F, T[n].path)}
        val(n) == ~Visited(T, n, stops) \/ islink(F, T[n].path)
    IN  set_prop(T, "symlinked", [n \in DOMAIN T |-> val(n)])

mark_symlinked(F, T) ==
    LET stops == {n \in DOMAIN T : islink(F, T[n].path)}
        val(n) == ~Visited(T, n, stops)
    IN  set_prop(T, "symlinked", [n \in DOMAIN T |-> val(n)])

\* mark_overlaid that accepts the link in either form.
mark_overlaid_anyform(F, T, relative_links) ==
    LET pts(n) == points_to(F, T[n].path, T[n].original_path)
        stops == {n \in DOMAIN T : T[n].symlinked \/ pts(n)}
        val(n) == /\ Visited(T, n, stops)
                  /\ ~T[n].symlinked
                  /\ pts(n)
    IN  set_prop(T, "overlaid", [n \in DOMAIN T |-> val(n)])

mark_overlaid(F, T, relative_links) ==
    LET pts(n) == points_to(F, T[n].path, T[n].original_path)
        stops == {n \in DOMAIN T : T[n].symlinked \/ pts(n)}
        val(n) == /\ Visited(T, n, stops)
                  /\ ~T[n].symlinked
                  /\ pts(n)
                  /\ is_relative_link(F, T[n].path) = relative_links
    IN  set_prop(T, "overlaid", [n \in DOMAIN T |-> val(n)])

mark_broken(F, T, overlay) ==
    LET val(n) == /\ ~T[n].symlinked
                  /\ points_into(F, T[n].path, overlay)
                  /\ ~T[n].overlaid
    IN  set_prop(T, "broken", [n \in DOMAIN T |-> val(n)])

\* mark_conflicting that does not look at broken.
mark_conflicting_broken(F, T) ==
    LET val(n) == /\ ~T[n].symlinked
                  /\ exists(F, T[n].path)
                  /\ ~T[n].is_dir
                  /\ ~T[n].overlaid
    IN  set_prop(T, "conflicting", [n \in DOMAIN T |-> val(n)])

mark_conflicting(F, T) ==
    LET val(n) == /\ ~T[n].symlinked
                  /\ exists(F, T[n].path)
                  /\ ~T[n].is_dir
                  /\ ~T[n].overlaid
                  /\ ~T[n].broken
    IN  set_prop(T, "conflicting", [n \in DOMAIN T |-> val(n)])

mark_collapsed(T) ==
    LET val(n) == T[n].is_dir /\ T[n].overlaid
    IN  set_prop(T, "collapsed", [n \in DOMAIN T |-> val(n)])

mark_collapsible(F, T, replace, overlay) ==
    LET replaceable(n, path) ==
            \/ isdir(F, path)
            \/ points_into(F, path, overlay)
            \/ (replace /\ \E t \in Sub(T, n) : T[t].path = abspath(path))
        ok(n) == /\ ~T[n].symlinked
                 /\ T[n].is_dir
                 /\ (~T[n].conflicting \/ replace)
                 /\ (osp_exists(F, T[n].path) =>
                        \A path \in walk_files(F, T[n].path) : replaceable(n, path))
        stops == {n \in DOMAIN T : ok(n)}
        val(n) == IF (Anc(T, n) \cup {n}) \cap stops # {}
                  THEN ~T[n].symlinked ELSE FALSE
    IN  set_prop(T, "collapsible", [n \in DOMAIN T |-> val(n)])

\* mark_removable without the clause for replaced conflicts.
mark_removable_noreplace(F, T, collapse, replace) ==
    LET rule(n) ==
            \/ T[n].broken
            \/ (collapse /\ T[n].collapsible /\ exists(F, T[n].path) /\ ~T[n].collapsed)
            \/ (~collapse /\ T[n].collapsed)
        stops == {n \in DOMAIN T : rule(n)}
        val(n) == (Anc(T, n) \cup {n}) \cap stops # {}
    IN  set_prop(T, "removable", [n \in DOMAIN T |-> val(n)])

\* mark_removable that does not hand removable down to the children.
mark_removable_top(F, T, collapse, replace) ==
    LET rule(n) ==
            \/ T[n].broken
            \/ (collapse /\ T[n].collapsible /\ exists(F, T[n].path) /\ ~T[n].collapsed)
            \/ (~collapse /\ T[n].collapsed)
            \/ (replace /\ T[n].conflicting)
    IN  set_prop(T, "removable", [n \in DOMAIN T |-> rule(n)])

mark_removable(F, T, collapse, replace) ==
    LET rule(n) ==
            \/ T[n].broken
            \/ (collapse /\ T[n].collapsible /\ exists(F, T[n].path) /\ ~T[n].collapsed)
            \/ (~collapse /\ T[n].collapsed)
            \/ (replace /\ T[n].conflicting)
        stops == {n \in DOMAIN T : rule(n)}
        val(n) == (Anc(T, n) \cup {n}) \cap stops # {}
    IN  set_prop(T, "removable", [n \in DOMAIN T |-> val(n)])

\* mark_remove that marks every removable node, not only the topmost.
mark_remove_all(T) ==
    set_prop(T, "remove", [n \in DOMAIN T |-> T[n].removable])

mark_remove(T) ==
    LET stops == {n \in DOMAIN T : T[n].removable}
        val(n) == Visited(T, n, stops) /\ T[n].removable
    IN  set_prop(T, "remove", [n \in DOMAIN T |-> val(n)])

\* mark_link that links no directory, whatever collapse says.
mark_link_leaves(T, collapse) ==
    LET lnk(n) ==
            /\ \/ (~T[n].symlinked /\ ~T[n].overlaid /\ ~T[n].conflicting)
               \/ T[n].removable
            /\ ~T[n].is_dir
        stops == {n \in DOMAIN T : lnk(n)}
        val(n) == Visited(T, n, stops) /\ lnk(n)
    IN  set_prop(T, "link", [n \in DOMAIN T |-> val(n)])

\* mark_link that goes on beneath a node it marked.
mark_link_all(T, collapse) ==
    LET lnk(n) ==
            /\ \/ (~T[n].symlinked /\ ~T[n].overlaid /\ ~T[n].conflicting)
               \/ T[n].removable
            /\ (~T[n].is_dir \/ (collapse /\ T[n].collapsible))
    IN  set_prop(T, "link", [n \in DOMAIN T |-> lnk(n)])

mark_link(T, collapse) ==
    LET lnk(n) ==
            /\ \/ (~T[n].symlinked /\ ~T[n].overlaid /\ ~T[n].conflicting)
               \/ T[n].removable
            /\ (~T[n].is_dir \/ (collapse /\ T[n].collapsible))
        stops == {n \in DOMAIN T : lnk(n)}
        val(n) == Visited(T, n, stops) /\ lnk(n)
    IN  set_prop(T, "link", [n \in DOMAIN T |-> val(n)])

\* mark_stat that adjusts a new link only where mode or owner differ.
mark_stat_differing(F, T, P) ==
    LET hit(n) == T[n].link \/ T[n].overlaid
        stops == {n \in DOMAIN T : hit(n)}
        linkmatches(n) ==
            /\ exists(F, T[n].path)
            /\ (~P.lchmod \/ equal_mode(F, T[n].path, T[n].original_path))
            /\ (~P.lchown \/ equal_owner(F, T[n].path, T[n].original_path))
        dirmatches(n) ==
            /\ exists(F, T[n].path)
            /\ equal_mode(F, T[n].path, T[n].original_path)
            /\ equal_owner(F, T[n].path, T[n].original_path)
        val(n) ==
            IF ~Visited(T, n, stops) THEN FALSE
            ELSE IF hit(n) THEN ~linkmatches(n)
            ELSE ~dirmatches(n) /\ (\E t \in Sub(T, n) \ {n} : hit(t))
    IN  set_prop(T, "stat", [n \in DOMAIN T |-> val(n)])

\* mark_stat that marks a differing directory whatever lies beneath it.
mark_stat_alone(F, T, P) ==
    LET hit(n) == T[n].link \/ T[n].overlaid
        stops == {n \in DOMAIN T : hit(n)}
        linkmatches(n) ==
            /\ exists(F, T[n].path)
            /\ (~P.lchmod \/ equal_mode(F, T[n].path, T[n].original_path))
            /\ (~P.lchown \/ equal_owner(F, T[n].path, T[n].original_path))
        dirmatches(n) ==
            /\ exists(F, T[n].path)
            /\ equal_mode(F, T[n].path, T[n].original_path)
            /\ equal_owner(F, T[n].path, T[n].original_path)
        val(n) ==
            IF ~Visited(T, n, stops) THEN FALSE
            ELSE IF hit(n) THEN T[n].link \/ ~linkmatches(n)
            ELSE ~dirmatches(n)
    IN  set_prop(T, "stat", [n \in DOMAIN T |-> val(n)])

mark_stat(F, T, P) ==
    LET hit(n) == T[n].link \/ T[n].overlaid
        stops == {n \in DOMAIN T : hit(n)}
        linkmatches(n) ==
            /\ exists(F, T[n].path)
            /\ (~P.lchmod \/ equal_mode(F, T[n].path, T[n].original_path))
            /\ (~P.lchown \/ equal_owner(F, T[n].path, T[n].original_path))
        dirmatches(n) ==
            /\ exists(F, T[n].path)
            /\ equal_mode(F, T[n].path, T[n].original_path)
            /\ equal_owner(F, T[n].path, T[n].original_path)
        val(n) ==
            IF ~Visited(T, n, stops) THEN FALSE
            ELSE IF hit(n) THEN T[n].link \/ ~linkmatches(n)
            ELSE ~dirmatches(n) /\ (\E t \in Sub(T, n) \ {n} : hit(t))
    IN  set_prop(T, "stat", [n \in DOMAIN T |-> val(n)])

\* main, "Find directory tree of interest" to "Mark planned actions".
classify(F, par, P) ==
    LET replace == par.conflict = "replace"
        t0 == translate(F, par.overlay_dir, par.base_dir)
        t1 == mark_symlinked(F, t0)
        t2 == mark_overlaid(F, t1, par.relative_links)
        t3 == mark_broken(F, t2, par.overlay_dir)
        t4 == mark_conflicting(F, t3)
        t5 == mark_collapsed(t4)
        t6 == mark_collapsible(F, t5, replace, par.overlay_dir)
        t7 == mark_removable(F, t6, par.collapse, replace)
        t8 == mark_remove(t7)
        t9 == mark_link(t8, par.collapse)
    IN  mark_stat(F, t9, P)

-----------------------------------------------------------------------------
\* main and the steps it runs.

EmptyTree == [n \in {} |-> TRUE]

NoResult ==
    [changed |-> FALSE, removed_trees |-> <<>>, created_links |-> <<>>,
     changed_stats |-> <<>>, backed_up |-> <<>>, msg |-> "", conflicts |-> <<>>,
     warnings |-> <<>>]

Paths(T, nodes) == [i \in 1..Len(nodes) |-> T[nodes[i]].path]

samefile(F, a, b) ==
    /\ osp_exists(F, a) /\ osp_exists(F, b)
    /\ Loc(F, a, TRUE).path = Loc(F, b, TRUE).path

listdir(F, p) == {q \in DOMAIN F : q # <<>> /\ Parent(q) = Loc(F, p, TRUE).path}

\* validate_params comparing the two directories with samefile alone.
validate_params_samefile(F, par, bdir) ==
    IF ~isdir(F, par.base_dir) THEN "base_dir has to exist and be a directory"
    ELSE IF ~isdir(F, par.overlay_dir)
        THEN "overlay_dir has to exist and be a directory"
    ELSE IF samefile(F, par.base_dir, par.overlay_dir)
        THEN "base_dir must not be (inside) overlay_dir"
    ELSE IF bdir # <<>> /\ exists(F, bdir) /\ ~isdir(F, bdir)
        THEN "backup_dir has to be a directory"
    ELSE IF bdir # <<>> /\ exists(F, bdir) /\ listdir(F, bdir) # {}
        THEN "backup_dir must be empty"
    ELSE IF bdir # <<>> /\ is_inside(bdir, par.overlay_dir)
        THEN "backup_dir must not be (inside) overlay_dir"
    ELSE ""

\* validate_params that never lists the backup directory.
validate_params_nolistdir(F, par, bdir) ==
    IF ~isdir(F, par.base_dir) THEN "base_dir has to exist and be a directory"
    ELSE IF ~isdir(F, par.overlay_dir)
        THEN "overlay_dir has to exist and be a directory"
    ELSE IF samefile(F, par.base_dir, par.overlay_dir)
            \/ is_inside(par.base_dir, par.overlay_dir)
        THEN "base_dir must not be (inside) overlay_dir"
    ELSE IF bdir # <<>> /\ exists(F, bdir) /\ ~isdir(F, bdir)
        THEN "backup_dir has to be a directory"
    ELSE IF bdir # <<>> /\ is_inside(bdir, par.overlay_dir)
        THEN "backup_dir must not be (inside) overlay_dir"
    ELSE ""

\* validate_params: the message of the first check that fails, "" if none.
validate_params(F, par, bdir) ==
    IF ~isdir(F, par.base_dir) THEN "base_dir has to exist and be a directory"
    ELSE IF ~isdir(F, par.overlay_dir)
        THEN "overlay_dir has to exist and be a directory"
    ELSE IF samefile(F, par.base_dir, par.overlay_dir)
            \/ is_inside(par.base_dir, par.overlay_dir)
        THEN "base_dir must not be (inside) overlay_dir"
    ELSE IF bdir # <<>> /\ exists(F, bdir) /\ ~isdir(F, bdir)
        THEN "backup_dir has to be a directory"
    ELSE IF bdir # <<>> /\ exists(F, bdir) /\ listdir(F, bdir) # {}
        THEN "backup_dir must be empty"
    ELSE IF bdir # <<>> /\ is_inside(bdir, par.overlay_dir)
        THEN "backup_dir must not be (inside) overlay_dir"
    ELSE ""

\* main up to validate_params: a new invocation; backup_dir is postfixed
\* with the timestamp, which here is the number of the invocation.
Main ==
    /\ pc \in {"idle", "done", "failed", "crashed"}
    /\ run < MaxRuns
    /\ run' = run + 1
    /\ \E c \in BOOLEAN : check_mode' = c
    /\ backup_dir' = IF params.backup_dir # <<>>
                     THEN Append(params.backup_dir, ToString(run + 1))
                     ELSE <<>>
    /\ result' = NoResult
    /\ tree' = EmptyTree
    /\ remove' = <<>> /\ link' = <<>> /\ stat' = <<>>
    /\ idx' = 1
    /\ fs0' = fs
    /\ prev' = [pc |-> pc, check_mode |-> check_mode, result |-> result]
    /\ pc' = "validate_params"
    /\ UNCHANGED <<call, fs, params, platform, listing>>

ValidateParams ==
    /\ pc = "validate_params"
    /\ LET msg == validate_params(fs, params, backup_dir)
       IN  IF msg # ""
           THEN /\ result' = [result EXCEPT !.msg = msg]
                /\ pc' = "failed"
           ELSE /\ pc' = "classify"
                /\ UNCHANGED result
    /\ UNCHANGED <<call, fs, params, check_mode, platform, run, backup_dir, tree,
                   remove, link, stat, idx, fs0, prev, listing>>

Classify ==
    /\ pc = "classify"
    /\ tree' = classify(fs, params, platform)
    /\ \E o \in Orders : listing' = o
    /\ pc' = "validate_conflicts"
    /\ UNCHANGED <<call, fs, params, check_mode, platform, run, backup_dir,
                   remove, link, stat, idx, result, fs0, prev>>

\* validate_conflicts with the message built from the first conflict only.
validate_conflicts_first(T, par) ==
    LET conflicting == filter_children(T, "conflicting")
    IN  IF conflicting # <<>> /\ par.conflict = "error"
        THEN [failed |-> TRUE, conflicts |-> Paths(T, <<Head(conflicting)>>),
              warnings |-> <<>>]
        ELSE [failed |-> FALSE, conflicts |-> <<>>, warnings |-> <<>>]

\* validate_conflicts: whether it fails, the paths its message lists and
\* the paths it warns about.
validate_conflicts(T, par) ==
    LET conflicting == filter_children(T, "conflicting")
    IN  IF conflicting # <<>> /\ par.conflict = "error"
        THEN [failed |-> TRUE, conflicts |-> Paths(T, conflicting), warnings |-> <<>>]
        ELSE IF conflicting # <<>> /\ par.warn_conflict
        THEN [failed |-> FALSE, conflicts |-> <<>>, warnings |-> Paths(T, conflicting)]
        ELSE [failed |-> FALSE, conflicts |-> <<>>, warnings |-> <<>>]

ValidateConflicts ==
    /\ pc = "validate_conflicts"
    /\ LET v == validate_conflicts(tree, params)
       IN  /\ result' = [result EXCEPT
                            !.msg = IF v.failed THEN "Found conflicts:" ELSE "",
                            !.conflicts = v.conflicts,
                            !.warnings = v.warnings]
           /\ pc' = IF v.failed THEN "failed" ELSE "update_result"
    /\ UNCHANGED <<call, fs, params, check_mode, platform, run, backup_dir, tree,
                   remove, link, stat, idx, fs0, prev, listing>>

\* The executor loop that runs after the given one, skipping empty lists.
AfterStat == "done"
AfterLink(st) == IF st # <<>> THEN "stat" ELSE AfterStat
AfterRemove(ln, st) == IF ln # <<>> THEN "link" ELSE AfterLink(st)
\* The executor with create_links called first and remove_trees never.
FirstPhase_linkfirst(rm, ln, st) == AfterRemove(ln, st)

FirstPhase(rm, ln, st) == IF rm # <<>> THEN "backup" ELSE AfterRemove(ln, st)

\* update_result that lists no backups.
update_result_nobackup(res, T, base_dir, bdir, rm, ln, st) ==
    [res EXCEPT
        !.removed_trees = Paths(T, rm),
        !.created_links = Paths(T, ln),
        !.changed_stats = Paths(T, st),
        !.changed = ~(Len(rm) = 0 /\ Len(ln) = 0 /\ Len(st) = 0)]

\* update_result
update_result(res, T, base_dir, bdir, rm, ln, st) ==
    [res EXCEPT
        !.removed_trees = Paths(T, rm),
        !.created_links = Paths(T, ln),
        !.changed_stats = Paths(T, st),
        !.changed = ~(Len(rm) = 0 /\ Len(ln) = 0 /\ Len(st) = 0),
        !.backed_up =
            IF bdir # <<>>
            THEN LET c == SelectSeq(rm, LAMBDA n : T[n].conflicting)
                 IN  [i \in 1..Len(c) |-> translate_path(T[c[i]].path, base_dir, bdir)]
            ELSE <<>>]

\* main, from the three filters to the check_mode exit.
UpdateResult ==
    /\ pc = "update_result"
    /\ LET rm == filter_children(tree, "remove")
           ln == filter_children(tree, "link")
           st == filter_children(tree, "stat")
       IN  /\ remove' = rm /\ link' = ln /\ stat' = st
           /\ result' = update_result(result, tree, params.base_dir, backup_dir,
                                      rm, ln, st)
           /\ pc' = IF check_mode THEN "done" ELSE FirstPhase(rm, ln, st)
    /\ idx' = 1
    /\ UNCHANGED <<call, fs, params, check_mode, platform, run, backup_dir, tree,
                   fs0, prev, listing>>

\* cptree that tests osp.isfile alone, so that a symlink which is no
\* regular file goes the directory way.
cptree_isfile(F, path, backup_path, lchmod) ==
    IF osp_isfile(F, path) THEN copy2(F, path, backup_path, lchmod)
    ELSE makedirs(F, path)

\* remove_trees.cptree, the visitor on one node: a symlink or a file is
\* copied to backup_path, for anything else the node's own path is made a
\* directory (which it is already).
cptree(F, path, backup_path, lchmod) ==
    IF islink(F, path) \/ osp_isfile(F, path)
    THEN copy2(F, path, backup_path, lchmod)
    ELSE makedirs(F, path)

\* tree.apply(cptree, stopping=True): the visitor over the node and, where
\* it returns True (the node is no symlink), its children; nodes is what is
\* left of the pre-order of the subtree of top.
RECURSIVE apply_cptree(_, _, _, _, _, _)
apply_cptree(F, T, top, nodes, backup_path, lchmod) ==
    IF nodes = <<>> THEN Ok(F)
    ELSE LET n == Head(nodes)
             skipped == \E a \in Sub(T, top) :
                            a # n /\ IsPrefix(a, n) /\ islink(F, T[a].path)
             r == cptree(F, T[n].path, backup_path, lchmod)
         IN  IF skipped THEN apply_cptree(F, T, top, Tail(nodes), backup_path, lchmod)
             ELSE IF ~r.ok THEN r
             ELSE apply_cptree(r.fs, T, top, Tail(nodes), backup_path, lchmod)

\* remove_trees, the backup half of one turn of the loop.
backup_tree(F, T, n, base_dir, bdir, lchmod) ==
    IF T[n].conflicting /\ bdir # <<>>
    THEN LET backup_path == translate_path(T[n].path, base_dir, bdir)
             r1 == makedirs(F, Parent(backup_path))
         IN  IF ~r1.ok THEN r1
             ELSE apply_cptree(r1.fs, T, n, PreOrder(Sub(T, n)), backup_path, lchmod)
    ELSE Ok(F)

\* remove_trees, the deleting half of one turn of the loop.
delete_tree(F, path) ==
    IF islink(F, path) \/ osp_isfile(F, path) THEN unlink(F, path)
    ELSE rmtree(F, path)

BackupStep ==
    /\ pc = "backup"
    /\ LET r == backup_tree(fs, tree, remove[idx], params.base_dir, backup_dir,
                            platform.lchmod)
       IN  /\ fs' = r.fs
           /\ pc' = IF r.ok THEN "delete" ELSE "crashed"
    /\ UNCHANGED <<call, params, check_mode, platform, run, backup_dir, tree,
                   remove, link, stat, idx, result, fs0, prev, listing, call>>

DeleteStep ==
    /\ pc = "delete"
    /\ LET r == delete_tree(fs, tree[remove[idx]].path)
       IN  /\ fs' = r.fs
           /\ pc' = IF ~r.ok THEN "crashed"
                    ELSE IF idx < Len(remove) THEN "backup"
                    ELSE AfterRemove(link, stat)
           /\ idx' = IF r.ok /\ idx < Len(remove) THEN idx + 1 ELSE 1
    /\ UNCHANGED <<call, params, check_mode, platform, run, backup_dir, tree,
                   remove, link, stat, result, fs0, prev, listing>>

\* create_links that writes the absolute target whatever relative_links says.
create_link_absolute(F, node, relative_links) ==
    LET r1 == makedirs(F, Parent(node.path))
    IN  IF ~r1.ok THEN r1
        ELSE symlink(r1.fs, AbsText(node.original_path), node.path, DefaultPerm)

\* create_links, one turn of the loop.
create_link(F, node, relative_links) ==
    LET r1 == makedirs(F, Parent(node.path))
        target == node.original_path
        text == IF relative_links
                THEN RelText(relpath(target, Parent(node.path)))
                ELSE AbsText(target)
    IN  IF ~r1.ok THEN r1 ELSE symlink(r1.fs, text, node.path, DefaultPerm)

CreateLink ==
    /\ pc = "link"
    /\ LET r == create_link(fs, tree[link[idx]], params.relative_links)
       IN  /\ fs' = r.fs
           /\ pc' = IF ~r.ok THEN "crashed"
                    ELSE IF idx < Len(link) THEN "link"
                    ELSE AfterLink(stat)
           /\ idx' = IF r.ok /\ idx < Len(link) THEN idx + 1 ELSE 1
    /\ UNCHANGED <<call, params, check_mode, platform, run, backup_dir, tree,
                   remove, link, stat, result, fs0, prev, listing>>

\* change_stats falling back to the following chmod and chown on a symlink
\* where the platform has no non-following ones.
change_stat_plain(F, node, P) ==
    IF lkind(F, node.original_path) = "none" THEN Err("ENOENT", F)
    ELSE LET st == lstat(F, node.original_path)
             r1 == chmod(F, node.path, st.perm, ~islink(F, node.path) \/ ~P.lchmod)
         IN  IF ~r1.ok THEN r1
             ELSE chown(r1.fs, node.path, st.uid, ~islink(F, node.path) \/ ~P.lchown)

\* change_stats, one turn of the loop.
change_stat(F, node, P) ==
    IF lkind(F, node.original_path) = "none" THEN Err("ENOENT", F)
    ELSE LET st == lstat(F, node.original_path)
         IN  IF ~islink(F, node.path)
             THEN LET r1 == chmod(F, node.path, st.perm, TRUE)
                  IN  IF ~r1.ok THEN r1 ELSE chown(r1.fs, node.path, st.uid, TRUE)
             ELSE LET r1 == IF P.lchmod THEN chmod(F, node.path, st.perm, FALSE)
                            ELSE Ok(F)
                  IN  IF ~r1.ok THEN r1
                      ELSE IF P.lchown THEN chown(r1.fs, node.path, st.uid, FALSE)
                      ELSE r1

ChangeStat ==
    /\ pc = "stat"
    /\ LET r == change_stat(fs, tree[stat[idx]], platform)
       IN  /\ fs' = r.fs
           /\ pc' = IF ~r.ok THEN "crashed"
                    ELSE IF idx < Len(stat) THEN "stat"
                    ELSE AfterStat
           /\ idx' = IF r.ok /\ idx < Len(stat) THEN idx + 1 ELSE 1
    /\ UNCHANGED <<call, params, check_mode, platform, run, backup_dir, tree,
                   remove, link, stat, result, fs0, prev, listing>>

Next ==
    \/ Main
    \/ ValidateParams
    \/ Classify
    \/ ValidateConflicts
    \/ UpdateResult
    \/ BackupStep
    \/ DeleteStep
    \/ CreateLink
    \/ ChangeStat

-----------------------------------------------------------------------------
\* The initial disks and configurations.

NoEntry == [kind |-> "none", text |-> NoText, perm |-> DefaultPerm,
            uid |-> ProcUid, data |-> ""]
At(p, e) == IF e.kind = "none" THEN EmptyTree ELSE (p :> e)

OldFile == FileEntry("old", DefaultPerm, ProcUid)
OldDir == DirEntry(DefaultPerm, ProcUid)
OldLink(text) == LinkEntry(text, DefaultPerm, ProcUid)

\* Mode and owner of the overlay's entries: as the module's defaults, or
\* differing in the permission bits, or in the owner.
Metas == {[perm |-> "p0", uid |-> "u0"], [perm |-> "p1", uid |-> "u0"],
          [perm |-> "p0", uid |-> "u1"]}

\* linux: os.chmod is not in os.supports_follow_symlinks, os.chown is.
\* bsd: both are.
Linux == [lchmod |-> FALSE, lchown |-> TRUE]
Bsd == [lchmod |-> TRUE, lchown |-> TRUE]
Platforms == {Linux, Bsd}

\* /x is a directory outside both trees holding a file; /z does not exist.
Outside == (<<"x">> :> OldDir) @@ (<<"x", "y">> :> FileEntry("y", DefaultPerm, ProcUid))

\* What a symlink found at base path p may say, o being the overlay entry
\* p maps to and w another overlay entry: the right link in both forms, a
\* link to the wrong overlay entry, a link to the outside directory, a
\* dangling link.
LinkTexts(p, o, w) ==
    {RelText(relpath(o, Parent(p))), AbsText(o), AbsText(w),
     AbsText(<<"x">>), AbsText(<<"z">>)}

\* What may occupy the base path of an overlay entry.
LeafOpts(p, o, w) ==
    {NoEntry, OldFile, OldDir} \cup {OldLink(t) : t \in LinkTexts(p, o, w)}

\* What may lie in a base directory beside the overlay's entries: a file,
\* a symlink to a directory, a symlink into the overlay.
ExtraOpts(w) == {NoEntry, OldFile, OldLink(AbsText(<<"x">>)), OldLink(AbsText(w))}

\* The overlay: directory d holding file f (or nothing), and file g.
Shapes == {"full", "emptydir"}

OverlayTree(ov, shape, m) ==
    (ov \o <<"d">> :> DirEntry(m.perm, m.uid))
    @@ (ov \o <<"g">> :> FileEntry("new g", m.perm, m.uid))
    @@ (IF shape = "full"
        THEN (ov \o <<"d", "f">> :> FileEntry("new f", m.perm, m.uid))
        ELSE EmptyTree)

\* Separate trees: base_dir /b, overlay_dir /o.
B == <<"b">>
O == <<"o">>

DOpts(shape) ==
    {[d |-> x, f |-> NoEntry, e |-> NoEntry] :
        x \in LeafOpts(B \o <<"d">>, O \o <<"d">>, O \o <<"g">>) \ {OldDir}}
    \cup
    {[d |-> OldDir, f |-> y, e |-> z] :
        y \in IF shape = "full"
              THEN LeafOpts(B \o <<"d", "f">>, O \o <<"d", "f">>, O \o <<"g">>)
              ELSE {NoEntry},
        z \in ExtraOpts(O \o <<"g">>)}

GOpts == LeafOpts(B \o <<"g">>, O \o <<"g">>, O \o <<"d">>)

World(shape, m, g, d) ==
    [base_dir |-> B, overlay_dir |-> O,
     fs |-> Outside @@ (B :> OldDir) @@ (O :> DirEntry(m.perm, m.uid))
            @@ OverlayTree(O, shape, m)
            @@ At(B \o <<"g">>, g) @@ At(B \o <<"d">>, d.d)
            @@ At(B \o <<"d", "f">>, d.f) @@ At(B \o <<"d", "e">>, d.e)]

Worlds(ms) ==
    UNION {{World(shape, m, g, d) : m \in ms, g \in GOpts, d \in DOpts(shape)} :
           shape \in Shapes}

\* The configurations: relative_links, conflict, collapse, backup_dir (""
\* or /k, which does not exist yet); warn_conflict has its default.
Config(rel, conflict, collapse, backup) ==
    [relative_links |-> rel, conflict |-> conflict, collapse |-> collapse,
     backup_dir |-> backup, warn_conflict |-> TRUE]

Configs(conflicts, backups) ==
    {Config(rel, c, col, b) :
        rel \in BOOLEAN, c \in conflicts, col \in BOOLEAN, b \in backups}

\* No library function is applied on its own while main runs.
NoCall == [fn |-> "none"]

InitOf(ws, cs, ps) ==
    /\ \E w \in ws, c \in cs :
        /\ fs = w.fs
        /\ params = [base_dir |-> w.base_dir, overlay_dir |-> w.overlay_dir]
                    @@ c
    /\ platform \in ps
    /\ check_mode = FALSE
    /\ run = 0
    /\ pc = "idle"
    /\ backup_dir = <<>>
    /\ tree = EmptyTree
    /\ remove = <<>> /\ link = <<>> /\ stat = <<>>
    /\ idx = 1
    /\ result = NoResult
    /\ fs0 = fs
    /\ prev = [pc |-> "idle", check_mode |-> FALSE, result |-> NoResult]
    /\ listing = "up"
    /\ call = NoCall

DefaultMeta == {[perm |-> "p0", uid |-> "u0"]}

NoBackup == {<<>>}
WithBackup == {<<>>, <<"k">>}

\* Every policy on every disk of the separate layout, on linux, the
\* overlay's modes and owners as the module would create them.
Init == InitOf(Worlds(DefaultMeta),
               Configs({"error", "keep"}, NoBackup)
                   \cup Configs({"replace"}, WithBackup),
               {Linux})
Spec == Init /\ [][Next]_vars

\* conflict = error alone; conflict = keep alone.
InitError == InitOf(Worlds(DefaultMeta), Configs({"error"}, NoBackup), {Linux})
SpecError == InitError /\ [][Next]_vars

InitKeep == InitOf(Worlds(DefaultMeta), Configs({"keep"}, NoBackup), {Linux})
SpecKeep == InitKeep /\ [][Next]_vars

\* conflict = replace, with and without backup_dir.
InitReplace == InitOf(Worlds(DefaultMeta), Configs({"replace"}, WithBackup), {Linux})
SpecReplace == InitReplace /\ [][Next]_vars

\* conflict = replace with backup_dir set.
InitBackup == InitOf(Worlds(DefaultMeta), Configs({"replace"}, {<<"k">>}), {Linux})
SpecBackup == InitBackup /\ [][Next]_vars

\* conflict = replace without backup, the overlay's entries differing from
\* what the module creates in mode or in owner.
InitMeta == InitOf(Worlds(Metas \ DefaultMeta), Configs({"replace"}, NoBackup), {Linux})
SpecMeta == InitMeta /\ [][Next]_vars

\* conflict = keep on both kinds of platform.
InitPlatforms == InitOf(Worlds(DefaultMeta), Configs({"keep"}, NoBackup), Platforms)
SpecPlatforms == InitPlatforms /\ [][Next]_vars

\* collapse = true alone, under every policy.
InitCollapse == InitOf(Worlds(DefaultMeta),
                       {c \in Configs({"error", "keep"}, NoBackup)
                                 \cup Configs({"replace"}, WithBackup) : c.collapse},
                       {Linux})
SpecCollapse == InitCollapse /\ [][Next]_vars

\* overlay_dir inside base_dir, which validate_params accepts: base_dir /b,
\* overlay_dir /b/o, the overlay holding a directory that is itself named
\* o (empty, or with file f) and, in the third shape, file g beside it.
NB == <<"b">>
NO == <<"b", "o">>

NestedShapes == {"dir", "dirfile", "dirfileg"}

NestedWorld(shape, m) ==
    [base_dir |-> NB, overlay_dir |-> NO,
     fs |-> Outside @@ (NB :> OldDir) @@ (NO :> DirEntry(m.perm, m.uid))
            @@ (NO \o <<"o">> :> DirEntry(m.perm, m.uid))
            @@ (IF shape # "dir"
                THEN (NO \o <<"o", "f">> :> FileEntry("new f", m.perm, m.uid))
                ELSE EmptyTree)
            @@ (IF shape = "dirfileg"
                THEN (NO \o <<"g">> :> FileEntry("new g", m.perm, m.uid))
                ELSE EmptyTree)]

NestedWorlds == {NestedWorld(shape, m) : shape \in NestedShapes, m \in Metas}

InitNested == InitOf(NestedWorlds,
                     Configs({"error", "keep", "replace"}, WithBackup),
                     Platforms)
SpecNested == InitNested /\ [][Next]_vars

-----------------------------------------------------------------------------
\* Vocabulary of the properties.

\* The current invocation has classified its tree.
Classified ==
    pc \in {"validate_conflicts", "update_result", "backup", "delete", "link",
            "stat", "done", "crashed"}
    \/ (pc = "failed" /\ result.msg = "Found conflicts:")

\* The current invocation was a real run that ran to its end.
Succeeded == pc = "done" /\ ~check_mode

Conflicting == {n \in DOMAIN tree : tree[n].conflicting}

Range(q) == {q[i] : i \in 1..Len(q)}

\* What the disk holds at real path p and beneath is what it held when
\* the invocation began.
Untouched(p) ==
    /\ \A q \in DOMAIN fs0 : IsPrefix(p, q) => q \in DOMAIN fs /\ fs[q] = fs0[q]
    /\ \A q \in DOMAIN fs : IsPrefix(p, q) => q \in DOMAIN fs0

-----------------------------------------------------------------------------
\* C2: with conflict = error, once a node is classified conflicting the run
\* has failed with the disk exactly as the invocation found it, and the
\* failure message lists the paths of the conflicting nodes, all of them
\* and nothing else.
C2_ErrorAbortsUntouched ==
    (params.conflict = "error" /\ Classified /\ pc # "validate_conflicts"
     /\ Conflicting # {})
    => /\ pc = "failed"
       /\ fs = fs0
       /\ Range(result.conflicts) = {tree[n].path : n \in Conflicting}
       /\ Len(result.conflicts) = Cardinality(Conflicting)

\* A run that failed on two conflicts at once.
C2_Witness ==
    /\ params.conflict = "error" /\ pc = "failed"
    /\ Cardinality(Conflicting) = 2
    /\ Len(result.conflicts) = 2

\* C3: with conflict = keep, no conflicting node is marked removable or
\* link, and after the run whatever occupied a conflicting node's base path
\* is still there unchanged.
C3_KeepLeavesConflicts ==
    (params.conflict = "keep" /\ Classified)
    => \A n \in Conflicting :
         /\ ~tree[n].removable
         /\ ~tree[n].link
         /\ (pc = "done" => Untouched(tree[n].path))

-----------------------------------------------------------------------------
\* The plan has been made (update_result has run).
Planned == pc \in {"backup", "delete", "link", "stat", "done", "crashed"}

\* C1: a run that follows a real run that completed reports changed = false
\* and plans nothing.
C1_Idempotent ==
    (run >= 2 /\ prev.pc = "done" /\ ~prev.check_mode /\ Planned)
    => /\ ~result.changed
       /\ result.removed_trees = <<>>
       /\ result.created_links = <<>>
       /\ result.changed_stats = <<>>

\* The base path of node n is, or lies beneath, a symlink to the original
\* path of the node it belongs to, and resolves to n's overlay entry.
ResolvesToOriginal(n) ==
    /\ \E a \in Anc(tree, n) \cup {n} :
          /\ tree[a].path \in DOMAIN fs
          /\ fs[tree[a].path].kind = "link"
          /\ points_to(fs, tree[a].path, a)
    /\ samefile(fs, tree[n].path, n)

\* Nothing of what lay at or beneath real path p when the invocation began
\* is still there.
OldGone(p) ==
    \A q \in DOMAIN fs0 : IsPrefix(p, q) => q \notin DOMAIN fs \/ fs[q] # fs0[q]

\* C4: with conflict = replace, after a real run that completed, what
\* occupied the base path of a conflicting node is gone and the path
\* resolves to the node's original_path, through a symlink at the path or
\* at the path of an ancestor.
C4_ReplaceInstallsLink ==
    (params.conflict = "replace" /\ Succeeded)
    => \A n \in Conflicting : OldGone(tree[n].path) /\ ResolvesToOriginal(n)

\* A completed replace run with two conflicts, one of them under a
\* directory that was removed and linked as a whole.
C4_Witness ==
    /\ params.conflict = "replace" /\ Succeeded
    /\ Cardinality(Conflicting) = 2
    /\ \E n \in Conflicting : \E a \in Anc(tree, n) : tree[a].link /\ tree[a].remove

\* C5: nothing at or beneath overlay_dir is created, deleted or changed in
\* mode or owner by a run.
C5_OverlayUntouched == Untouched(params.overlay_dir)

\* C6: after a real run that completed and found no conflict, every overlay
\* entry is reachable from base: its base path resolves to it through a
\* symlink at that path or at an ancestor's.
C6_AllReachable ==
    (Succeeded /\ Conflicting = {})
    => \A n \in DOMAIN tree : ResolvesToOriginal(n)

TopCollapsible ==
    {n \in DOMAIN tree :
        tree[n].collapsible /\ \A a \in Anc(tree, n) : ~tree[a].collapsible}

\* C7: with collapse = true, after a real run that completed, the base path
\* of every topmost collapsible node is a symlink to the node's
\* original_path, and base holds nothing beneath that path.
C7_CollapsedToOneLink ==
    (params.collapse /\ Succeeded)
    => \A n \in TopCollapsible :
         /\ tree[n].path \in DOMAIN fs
         /\ fs[tree[n].path].kind = "link"
         /\ points_to(fs, tree[n].path, n)
         /\ \A q \in DOMAIN fs : IsPrefix(tree[n].path, q) => q = tree[n].path

\* A base directory holding links and a link into the overlay was replaced
\* by one symlink.
C7_Witness ==
    /\ params.collapse /\ Succeeded
    /\ \E n \in TopCollapsible :
          /\ tree[n].remove /\ tree[n].link
          /\ fs0[tree[n].path].kind = "dir"
          /\ \E q \in DOMAIN fs0 : q # tree[n].path /\ IsPrefix(tree[n].path, q)

\* C8: with collapse = false, no directory node is in to_link, a collapsed
\* node is removed, and after a real run that completed and found no
\* conflict every overlay leaf has its own symlink at its base path.
C8_NoDirectoryLinked ==
    (~params.collapse /\ Classified)
    => /\ \A n \in DOMAIN tree : tree[n].link => ~tree[n].is_dir
       /\ \A n \in DOMAIN tree : tree[n].collapsed => tree[n].remove
       /\ (Succeeded /\ Conflicting = {}) =>
            \A n \in DOMAIN tree :
                ~tree[n].is_dir =>
                    /\ tree[n].path \in DOMAIN fs
                    /\ fs[tree[n].path].kind = "link"
                    /\ points_to(fs, tree[n].path, n)

\* Where the backup of node n goes.
BackupPath(n) == translate_path(tree[n].path, params.base_dir, backup_dir)

\* What occupied the base path of node n when the invocation began is no
\* longer there.
Deleted(n) ==
    tree[n].path \notin DOMAIN fs \/ fs[tree[n].path] # fs0[tree[n].path]

\* C9: with conflict = replace and backup_dir set, a conflicting base file
\* that is gone has a copy under the timestamped backup directory, however
\* it was deleted.
C9_ConflictBackedUp ==
    (params.conflict = "replace" /\ backup_dir # <<>> /\ Classified)
    => \A n \in Conflicting :
         (fs0[tree[n].path].kind = "file" /\ Deleted(n))
         => /\ BackupPath(n) \in DOMAIN fs
            /\ fs[BackupPath(n)].kind = "file"
            /\ fs[BackupPath(n)].data = fs0[tree[n].path].data

-----------------------------------------------------------------------------
\* C11: once the plan is made, the result fields are a function of the disk
\* the invocation found, the parameters and the listing order alone, the
\* same in check mode and out of it; and an invocation in check mode ends
\* right after the plan with the disk exactly as it found it.
C11_DryRunSamePlan ==
    Planned
    => /\ tree = classify(fs0, params, platform)
       /\ remove = filter_children(tree, "remove")
       /\ link = filter_children(tree, "link")
       /\ stat = filter_children(tree, "stat")
       /\ result.removed_trees = Paths(tree, remove)
       /\ result.created_links = Paths(tree, link)
       /\ result.changed_stats = Paths(tree, stat)
       /\ result.changed = (remove # <<>> \/ link # <<>> \/ stat # <<>>)
       /\ result.backed_up =
            IF backup_dir = <<>> THEN <<>>
            ELSE LET c == SelectSeq(remove, LAMBDA n : tree[n].conflicting)
                 IN  [i \in 1..Len(c) |-> BackupPath(c[i])]
       /\ check_mode => (pc = "done" /\ fs = fs0)

\* A dry run that ended with a plan to remove, to back up and to link.
C11_Witness ==
    /\ check_mode /\ pc = "done"
    /\ result.changed
    /\ result.removed_trees # <<>>
    /\ result.backed_up # <<>>
    /\ result.created_links # <<>>
    /\ result.changed_stats # <<>>

-----------------------------------------------------------------------------
\* The base paths of the nodes of a list.
BasePaths(nodes) == {tree[n].path : n \in Range(nodes)}

\* C12: within one run the three executor loops run one after the other.
\* While remove_trees is at work nothing has been created or changed
\* beneath base_dir; once create_links is at work or done, everything that
\* lay at or beneath the path of every to_remove node is gone; while
\* remove_trees or create_links is at work no mode or owner has been
\* changed; and once change_stats is at work every to_link node has its
\* symlink.
C12_RemoveLinkStatInOrder ==
    /\ pc \in {"backup", "delete"} =>
         \A q \in DOMAIN fs :
             IsPrefix(params.base_dir, q) => q \in DOMAIN fs0 /\ fs[q] = fs0[q]
    /\ (pc \in {"link", "stat"} \/ (Succeeded /\ Planned)) =>
         \A p \in BasePaths(remove) : OldGone(p)
    /\ pc \in {"backup", "delete", "link"} =>
         \A q \in DOMAIN fs \cap DOMAIN fs0 :
             fs[q].kind = fs0[q].kind =>
                 fs[q].perm = fs0[q].perm /\ fs[q].uid = fs0[q].uid
    /\ (pc = "stat" \/ (Succeeded /\ Planned)) =>
         \A n \in Range(link) :
             /\ tree[n].path \in DOMAIN fs
             /\ fs[tree[n].path].kind = "link"
             /\ points_to(fs, tree[n].path, n)

\* change_stats is at work in a run that removed a directory and created
\* a link at the same path, and has changed an owner or a mode already.
C12_Witness ==
    /\ pc = "stat" /\ idx > 1
    /\ \E n \in Range(remove) :
          /\ n \in Range(link)
          /\ fs0[tree[n].path].kind = "dir"
    /\ \E q \in DOMAIN fs \cap DOMAIN fs0 :
          fs[q].kind = fs0[q].kind /\ fs[q].uid # fs0[q].uid

-----------------------------------------------------------------------------
\* C13: repeated runs settle.  A real run that completed and reports
\* changed = true has changed the disk (a run that reports a change and
\* leaves the disk as it found it is repeated by every run after it, so
\* changed = false is never reached); and after a real run that reported
\* changed = false the next run reports changed = false too and leaves the
\* disk as it is.
C13_Converges ==
    /\ (Succeeded /\ result.changed) => fs # fs0
    /\ (run >= 2 /\ prev.pc = "done" /\ ~prev.check_mode
        /\ ~prev.result.changed /\ Planned)
       => /\ ~result.changed
          /\ pc = "done"
          /\ fs = fs0


-----------------------------------------------------------------------------
\* Layouts of the two directories other than side by side: base_dir is
\* overlay_dir; base_dir inside overlay_dir; either of the two reached
\* through /e, a symlink to /o, so that the paths' texts do not show it;
\* the trees side by side; and overlay_dir inside base_dir.
E == <<"e">>

LayoutWorld(base, overlay) ==
    [base_dir |-> base, overlay_dir |-> overlay,
     fs |-> Outside @@ (O :> OldDir)
            @@ OverlayTree(O, "full", [perm |-> DefaultPerm, uid |-> ProcUid])
            @@ (E :> OldLink(AbsText(O)))]

LayoutWorlds ==
    {LayoutWorld(O, O), LayoutWorld(O \o <<"d">>, O),
     LayoutWorld(E \o <<"d">>, O \o <<"d">>), LayoutWorld(E \o <<"d">>, O),
     LayoutWorld(E, O), LayoutWorld(<<"x">>, O)}

InitLayout == InitOf(LayoutWorlds \cup NestedWorlds,
                     Configs({"error", "keep", "replace"}, WithBackup),
                     {Linux})
SpecLayout == InitLayout /\ [][Next]_vars

\* The invocation has left validate_params behind.
Validated == run >= 1 /\ pc # "validate_params"

\* validate_params refused the layout, with nothing classified or changed.
LayoutRejected ==
    /\ pc = "failed"
    /\ result.msg = "base_dir must not be (inside) overlay_dir"
    /\ tree = EmptyTree
    /\ fs = fs0

\* C14: when base_dir and overlay_dir are real directories and are the
\* same directory (by whatever path), or the text of base_dir lies under
\* that of overlay_dir, the run is rejected with the configuration error
\* before anything is classified or changed.
C14_BaseInsideOverlayRejected ==
    (Validated /\ isdir(fs0, params.base_dir) /\ isdir(fs0, params.overlay_dir)
     /\ (samefile(fs0, params.base_dir, params.overlay_dir)
         \/ is_inside(params.base_dir, params.overlay_dir)))
    => LayoutRejected

\* A run rejected for a base_dir strictly inside overlay_dir.
C14_Witness ==
    /\ LayoutRejected
    /\ params.base_dir # params.overlay_dir
    /\ is_inside(params.base_dir, params.overlay_dir)

\* C14 as stated: base_dir equal to overlay_dir, or overlay_dir inside
\* base_dir, is rejected before anything is classified or changed.
C14_BaseContainingOverlayRejected ==
    (Validated /\ isdir(fs0, params.base_dir) /\ isdir(fs0, params.overlay_dir)
     /\ is_inside(params.overlay_dir, params.base_dir))
    => LayoutRejected


-----------------------------------------------------------------------------
\* What the caller's backup_dir /k may be when the first invocation
\* begins: absent; an empty directory; a directory holding a file; a
\* directory that holds what the first invocation's timestamp names, as an
\* empty directory, a directory with a file in it, or a file.
K == <<"k">>
KOpts ==
    {EmptyTree,
     K :> OldDir,
     (K :> OldDir) @@ (K \o <<"y">> :> OldFile),
     (K :> OldDir) @@ (K \o <<"1">> :> OldDir),
     (K :> OldDir) @@ (K \o <<"1">> :> OldDir) @@ (K \o <<"1", "y">> :> OldFile),
     (K :> OldDir) @@ (K \o <<"1">> :> OldFile)}

\* Disks of the separate layout with a conflict at g, at d/f, at both or
\* at neither, each with every state of /k.
BackupWorlds ==
    {[w EXCEPT !.fs = @ @@ k] :
        w \in {World("full", [perm |-> DefaultPerm, uid |-> ProcUid], g, d) :
                  g \in {NoEntry, OldFile},
                  d \in {[d |-> NoEntry, f |-> NoEntry, e |-> NoEntry],
                         [d |-> OldDir, f |-> OldFile, e |-> NoEntry]}},
        k \in KOpts}

\* backup_dir as the caller gives it: /k, a path inside overlay_dir, or
\* overlay_dir itself.
BackupDirs == {K, O \o <<"k">>, O}

InitBackupDir == InitOf(BackupWorlds, Configs({"replace"}, BackupDirs), {Linux})
SpecBackupDir == InitBackupDir /\ [][Next]_vars

\* validate_params refused backup_dir, with nothing classified or changed.
BackupDirRejected ==
    /\ pc = "failed"
    /\ result.msg \in {"backup_dir has to be a directory",
                       "backup_dir must be empty",
                       "backup_dir must not be (inside) overlay_dir"}
    /\ tree = EmptyTree
    /\ fs = fs0

\* C15: when the backup directory of the invocation, the caller's
\* backup_dir with the timestamp joined to it, exists and is not an empty
\* directory, or lies inside overlay_dir, the run is rejected with a
\* configuration error before anything is classified or changed; and a run
\* is rejected for its backup_dir in these cases only.
C15_TimestampedBackupDirChecked ==
    (Validated /\ params.backup_dir # <<>>)
    => (BackupDirRejected
        <=> \/ exists(fs0, backup_dir)
               /\ (~isdir(fs0, backup_dir) \/ listdir(fs0, backup_dir) # {})
            \/ is_inside(backup_dir, params.overlay_dir))

\* A run rejected because the timestamped directory holds something.
C15_Witness ==
    /\ BackupDirRejected
    /\ result.msg = "backup_dir must be empty"
    /\ listdir(fs0, backup_dir) # {}

\* C15 as stated: when the directory the caller supplied exists and is not
\* empty, or lies inside overlay_dir, the run is rejected before anything
\* is classified or changed.
C15_SuppliedBackupDirChecked ==
    (Validated /\ params.backup_dir # <<>>
     /\ (\/ isdir(fs0, params.backup_dir)
            /\ listdir(fs0, params.backup_dir) # {}
         \/ is_inside(params.backup_dir, params.overlay_dir)))
    => BackupDirRejected


-----------------------------------------------------------------------------
\* Tree.translate_path applied on its own, to paths as the caller writes
\* them: a text [abs, comps], absolute or relative to the working
\* directory; the relative text without components is the empty string.

\* The working directory of the process.
Cwd == <<"w">>

\* bool(text): only the empty string is false.
Truthy(text) == text.abs \/ text.comps # <<>>

\* osp.commonpath([a, b]) of two texts that are both absolute or both
\* relative: their longest common leading run of components.
commonpath(a, b) ==
    [abs |-> a.abs, comps |-> SubSeq(a.comps, 1, CommonLen(a.comps, b.comps))]

\* Tree.translate_path: err is the exception raised ("" if none), path the
\* text returned.  osp.relpath refuses the empty string; a "." it returns
\* is dropped when joined to new_base.
Tree_translate_path(path, old_base, new_base) ==
    IF path.abs # old_base.abs
       \/ ~(old_base = path \/ Truthy(commonpath(old_base, path)))
    THEN [err |-> "AssertionError", path |-> NoText]
    ELSE IF ~Truthy(path) THEN [err |-> "ValueError", path |-> NoText]
    ELSE [err |-> "",
          path |-> [abs |-> new_base.abs,
                    comps |-> new_base.comps
                              \o relpath(join(Cwd, path), join(Cwd, old_base))]]

\* The texts given: up to MaxDepth components from a few names.
MaxDepth == 2
Names == {"b", "o", "d"}
Comps == UNION {[1..n -> Names] : n \in 0..MaxDepth}
Texts == {[abs |-> a, comps |-> c] : a \in BOOLEAN, c \in Comps}

InitTranslate ==
    /\ \E p \in Texts, ob \in Texts, nb \in {AbsText(<<"k">>), RelText(<<"k">>)} :
        call = [fn |-> "translate_path", path |-> p, old_base |-> ob,
                new_base |-> nb, returned |-> FALSE]
    /\ fs = EmptyTree /\ fs0 = EmptyTree
    /\ params = [base_dir |-> <<>>, overlay_dir |-> <<>>]
    /\ platform = Linux
    /\ check_mode = FALSE
    /\ run = 0
    /\ pc = "idle"
    /\ backup_dir = <<>>
    /\ tree = EmptyTree
    /\ remove = <<>> /\ link = <<>> /\ stat = <<>>
    /\ idx = 1
    /\ result = NoResult
    /\ prev = [pc |-> "idle", check_mode |-> FALSE, result |-> NoResult]
    /\ listing = "up"

TranslatePath ==
    /\ call.fn = "translate_path" /\ ~call.returned
    /\ call' = [returned |-> TRUE,
                out |-> Tree_translate_path(call.path, call.old_base,
                                            call.new_base)] @@ call
    /\ UNCHANGED <<fs, params, check_mode, platform, run, pc, backup_dir, tree,
                   remove, link, stat, idx, result, fs0, prev, listing>>

SpecTranslate == InitTranslate /\ [][TranslatePath]_vars

\* The path lies on or under old_base.
OnOrUnder(path, old_base) ==
    path.abs = old_base.abs /\ IsPrefix(old_base.comps, path.comps)

\* C16: translate_path fails whenever the tree's path does not lie on or
\* under old_base, and succeeds only when it does.
C16_TranslateNeedsCommonBase ==
    (call.fn = "translate_path" /\ call.returned)
    => (call.out.err = "" => OnOrUnder(call.path, call.old_base))


-----------------------------------------------------------------------------
\* The base path of node n held nothing, not even a dangling symlink, when
\* the tree was classified.
Absent(n) == ~exists(fs0, tree[n].path)

\* How many of the four classes node n is in.
Classes(n) ==
    Cardinality({c \in {"overlaid", "broken", "conflicting"} : tree[n][c]}
                \cup (IF Absent(n) THEN {"absent"} ELSE {}))

\* C17: after classification no node is in two of the classes overlaid,
\* broken, conflicting, absent; a node that is not a directory of the
\* overlay and not behind a symlink is in exactly one; a node in none of
\* them is a directory of the overlay whose base path exists, or lies
\* behind a symlink.
C17_ClassesOfLeaves ==
    Classified
    => \A n \in DOMAIN tree :
          /\ Classes(n) <= 1
          /\ (~tree[n].is_dir /\ ~tree[n].symlinked) => Classes(n) = 1
          /\ Classes(n) = 0 =>
                \/ tree[n].symlinked
                \/ tree[n].is_dir /\ exists(fs0, tree[n].path)

\* A classified tree with a broken node and a conflicting node.
C17_Witness ==
    /\ Classified
    /\ \E n, m \in DOMAIN tree : tree[n].broken /\ tree[m].conflicting

\* C17 as stated: after classification every node is in exactly one of the
\* four classes.
C17_ExactlyOneClass == Classified => \A n \in DOMAIN tree : Classes(n) = 1


-----------------------------------------------------------------------------
\* No node is listed twice and none beneath another node of the list.
TopLevelOnly(nodes) ==
    \A i, j \in 1..Len(nodes) : i # j => ~IsPrefix(nodes[i], nodes[j])

\* C18: of the three lists the planner hands to the executor, neither
\* to_remove nor to_link names a node beneath another node of the same
\* list, and every node of to_link is also in to_sync_stat (a new link is
\* always adjusted) unless it lies beneath a node that is overlaid.
C18_LinksAreSynced ==
    Planned
    => /\ TopLevelOnly(remove) /\ TopLevelOnly(link)
       /\ \A n \in Range(link) :
              n \in Range(stat) \/ \E a \in Anc(tree, n) : tree[a].overlaid

\* A plan that removes a node and links the same node.
C18_Witness ==
    /\ Planned
    /\ Range(remove) \cap Range(link) # {}
    /\ Len(link) >= 2

\* C18 as stated: no node is in two of to_remove, to_link, to_sync_stat.
C18_ActionSetsDisjoint ==
    Planned
    => /\ Range(remove) \cap Range(link) = {}
       /\ Range(remove) \cap Range(stat) = {}
       /\ Range(link) \cap Range(stat) = {}


-----------------------------------------------------------------------------
\* An empty base_dir /b beside overlays of every shape: at the top a file
\* g or none; and d, which is missing, an empty directory, a directory
\* holding a file, a symlink, an empty directory or a directory with a
\* file in it, or itself a symlink to a directory or to nothing.
OverlayD ==
    LET d == O \o <<"d">>
        dir == d :> OldDir
    IN  {EmptyTree,
         dir,
         dir @@ (d \o <<"f">> :> OldFile),
         dir @@ (d \o <<"f">> :> OldLink(AbsText(<<"x">>))),
         dir @@ (d \o <<"e">> :> OldDir),
         dir @@ (d \o <<"e">> :> OldDir) @@ (d \o <<"e", "f">> :> OldFile),
         dir @@ (d \o <<"f">> :> OldFile) @@ (d \o <<"e">> :> OldDir)
             @@ (d \o <<"e", "f">> :> OldFile),
         d :> OldLink(AbsText(<<"x">>)),
         d :> OldLink(AbsText(<<"z">>))}

OverlayG == {EmptyTree, O \o <<"g">> :> OldFile}

EmptyBaseWorlds ==
    {[base_dir |-> B, overlay_dir |-> O,
      fs |-> Outside @@ (B :> OldDir) @@ (O :> OldDir) @@ d @@ g] :
        d \in OverlayD, g \in OverlayG}

\* For contrast, a base_dir that holds a regular file at g.
OccupiedWorlds ==
    {World("full", [perm |-> DefaultPerm, uid |-> ProcUid], OldFile,
           [d |-> NoEntry, f |-> NoEntry, e |-> NoEntry])}

InitEmptyBase == InitOf(EmptyBaseWorlds \cup OccupiedWorlds,
                        Configs({"error", "keep", "replace"}, WithBackup),
                        {Linux})
SpecEmptyBase == InitEmptyBase /\ [][Next]_vars

\* base_dir held nothing when the invocation began.
EmptyBase == listdir(fs0, params.base_dir) = {}

\* The overlay's entries as the disk holds them, and where each maps to.
OverlayEntries == from_path(fs0, params.overlay_dir)
Mapped(S) == {translate_path(q, params.overlay_dir, params.base_dir) : q \in S}

\* C19: on an empty base_dir the run is not refused, nothing is to be
\* removed and nothing conflicts; with collapse the links to create are
\* the mapped paths of the overlay's top-level entries, without collapse
\* those of its entries that are not directories; none is listed twice.
C19_EmptyBasePlan ==
    /\ (EmptyBase /\ run >= 1) => pc # "failed"
    /\ (EmptyBase /\ Planned) =>
          /\ result.removed_trees = <<>>
          /\ Conflicting = {}
          /\ result.conflicts = <<>> /\ result.warnings = <<>>
          /\ LET want ==
                    IF params.collapse
                    THEN {q \in OverlayEntries :
                             Len(q) = Len(params.overlay_dir) + 1}
                    ELSE {q \in OverlayEntries : fs0[q].kind # "dir"}
             IN  /\ Range(result.created_links) = Mapped(want)
                 /\ Len(result.created_links) = Cardinality(want)

\* A plan for an empty base_dir without collapse, the overlay holding
\* directories two deep and two entries to link.
C19_Witness ==
    /\ EmptyBase /\ Planned /\ ~params.collapse
    /\ Len(result.created_links) = 2
    /\ \E q \in OverlayEntries :
          fs0[q].kind = "dir" /\ Len(q) = Len(params.overlay_dir) + 2


-----------------------------------------------------------------------------
\* The nodes classified broken: a symlink into overlay_dir that is not the
\* right link of its node.
Broken == {n \in DOMAIN tree : tree[n].broken}

\* The base path of node m now holds the link the run is to make for it:
\* a symlink to the node's original path in the form relative_links asks.
CorrectLink(m) ==
    /\ islink(fs, tree[m].path)
    /\ points_to(fs, tree[m].path, m)
    /\ is_relative_link(fs, tree[m].path) = params.relative_links

\* C20: a broken node is never classified or reported as a conflict, under
\* no policy; and after a real run that completed the broken link is gone
\* and every node at or beneath the broken one is reached from base
\* through a correct link, at its own path or at an ancestor's.
C20_BrokenLinksReplaced ==
    /\ Classified =>
          \A n \in Broken :
             /\ ~tree[n].conflicting
             /\ tree[n].path \notin Range(result.conflicts)
             /\ tree[n].path \notin Range(result.warnings)
    /\ Succeeded =>
          \A n \in Broken :
             /\ OldGone(tree[n].path)
             /\ \A m \in Sub(tree, n) :
                   \E a \in DOMAIN tree : IsPrefix(a, m) /\ CorrectLink(a)


-----------------------------------------------------------------------------
\* plugins/modules/clean.py: the passes, main and its removal loop.  The
\* module's state lives in the variables main of linkoverlay uses for the
\* same things: params (path, exclude), check_mode, tree, remove, idx,
\* result, pc.

\* Tree.from_path(path): a node per entry really lying under path.
clean_tree(F, path) ==
    [n \in from_path(F, path) |-> [path |-> n, is_dir |-> F[n].kind = "dir"]]

clean_mark_excluded(T, exclude) ==
    LET stops == {n \in DOMAIN T : T[n].path \in exclude}
        val(n) == (Anc(T, n) \cup {n}) \cap stops # {}
    IN  set_prop(T, "excluded", [n \in DOMAIN T |-> val(n)])

clean_mark_removable(T) ==
    LET val(n) == ~\E t \in Sub(T, n) : T[t].excluded
    IN  set_prop(T, "removable", [n \in DOMAIN T |-> val(n)])

clean_mark_remove(T) ==
    LET stops == {n \in DOMAIN T : T[n].removable}
        val(n) == T[n].removable /\ Visited(T, n, stops)
    IN  set_prop(T, "remove", [n \in DOMAIN T |-> val(n)])

\* main up to the check_mode exit: Tree.from_path raises AssertionError
\* when path does not exist.
CleanMain ==
    /\ pc \in {"idle", "done", "crashed"}
    /\ run < MaxRuns
    /\ run' = run + 1
    /\ \E c \in BOOLEAN : check_mode' = c
    /\ \E o \in Orders : listing' = o
    /\ fs0' = fs
    /\ prev' = [pc |-> pc, check_mode |-> check_mode, result |-> result]
    /\ idx' = 1
    /\ IF ~exists(fs, params.path)
       THEN /\ pc' = "crashed"
            /\ tree' = EmptyTree /\ remove' = <<>>
            /\ result' = [changed |-> FALSE]
       ELSE LET t == clean_mark_remove(clean_mark_removable(
                        clean_mark_excluded(clean_tree(fs, params.path),
                                            params.exclude)))
            IN  /\ tree' = t
                /\ remove' = PreOrder({n \in DOMAIN t : t[n].remove})
                /\ result' = [changed |-> FALSE,
                              removed |-> Paths(t, remove')]
                /\ pc' = IF check_mode' \/ remove' = <<>> THEN "done"
                         ELSE "clean_remove"
    /\ UNCHANGED <<call, fs, params, platform, backup_dir, link, stat>>

\* One round of the loop "for tree in remove".
CleanRemove ==
    /\ pc = "clean_remove"
    /\ LET path == tree[remove[idx]].path
           r == IF islink(fs, path) \/ osp_isfile(fs, path)
                THEN unlink(fs, path) ELSE rmtree(fs, path)
       IN  /\ fs' = r.fs
           /\ pc' = IF ~r.ok THEN "crashed"
                    ELSE IF idx = Len(remove) THEN "done" ELSE "clean_remove"
    /\ idx' = idx + 1
    /\ UNCHANGED <<call, params, check_mode, platform, run, backup_dir, tree,
                   remove, link, stat, result, fs0, prev, listing>>

\* The directory cleaned, /b: directory d with file f and the empty
\* directory e, file g, and k, a symlink to the outside directory /x.
CleanDisk ==
    Outside @@ (B :> OldDir) @@ (B \o <<"d">> :> OldDir)
    @@ (B \o <<"d", "f">> :> OldFile) @@ (B \o <<"d", "e">> :> OldDir)
    @@ (B \o <<"g">> :> OldFile) @@ (B \o <<"k">> :> OldLink(AbsText(<<"x">>)))

\* What exclude may name: the entries, the root, the file seen through
\* the symlink, a path that does not exist, a path outside.
Excludable ==
    {B, B \o <<"d">>, B \o <<"d", "f">>, B \o <<"d", "e">>, B \o <<"g">>,
     B \o <<"k">>, B \o <<"k", "y">>, B \o <<"z">>, <<"x">>}

InitClean ==
    /\ fs \in {CleanDisk, Outside}
    /\ \E e \in SUBSET Excludable : params = [path |-> B, exclude |-> e]
    /\ platform = Linux
    /\ check_mode = FALSE
    /\ run = 0
    /\ pc = "idle"
    /\ backup_dir = <<>>
    /\ tree = EmptyTree
    /\ remove = <<>> /\ link = <<>> /\ stat = <<>>
    /\ idx = 1
    /\ result = [changed |-> FALSE]
    /\ fs0 = fs
    /\ prev = [pc |-> "idle", check_mode |-> FALSE, result |-> [changed |-> FALSE]]
    /\ listing = "up"
    /\ call = NoCall

NextClean == CleanMain \/ CleanRemove

SpecClean == InitClean /\ [][NextClean]_vars

\* The paths under the root that named something when the invocation
\* began, entries seen through a symlink included.
CleanPaths ==
    {p \in Excludable \cup DOMAIN fs0 :
        IsPrefix(params.path, p) /\ p # params.path /\ exists(fs0, p)}

\* Path p is excluded, lies beneath an excluded path below the root, or
\* holds an excluded path that existed.
CleanKept(p) ==
    \/ p \in params.exclude
    \/ \E a \in params.exclude :
          a # params.path /\ IsPrefix(params.path, a) /\ IsPrefix(a, p)
    \/ \E d \in CleanPaths : d \in params.exclude /\ IsPrefix(p, d)

\* A real run of clean that ran to its end.
Cleaned == pc = "done" /\ ~check_mode /\ run >= 1 /\ exists(fs0, params.path)

\* C21: after a real run of clean a path that existed under the root
\* still exists iff it is excluded, lies beneath an excluded path or
\* holds one; the root is still there; and the removed list names the
\* topmost deleted paths, each once and none inside another.
C21_CleanKeepsExcluded ==
    Cleaned
    => /\ \A p \in CleanPaths : exists(fs, p) <=> CleanKept(p)
       /\ exists(fs, params.path)
       /\ Range(result.removed) =
             {p \in CleanPaths : ~exists(fs, p) /\ exists(fs, Parent(p))}
       /\ TopLevelOnly(result.removed)


-----------------------------------------------------------------------------
\* The base path of a strict ancestor of node n was a symlink when the
\* invocation began.
BehindSymlink(n) == \E a \in Anc(tree, n) : islink(fs0, tree[a].path)

\* C22: after the symlinked pass a node has symlinked = true iff the base
\* path of one of its strict ancestors below the root is a symlink; the
\* node whose own base path is the symlink has symlinked = false.
C22_SymlinkedBehindLink ==
    Classified => \A n \in DOMAIN tree : tree[n].symlinked <=> BehindSymlink(n)

\* A symlink at the base path of an overlay directory with an entry below.
C22_Witness ==
    /\ Classified
    /\ \E n, m \in DOMAIN tree :
          /\ n \in Anc(tree, m)
          /\ islink(fs0, tree[n].path)
          /\ ~tree[n].symlinked /\ tree[m].symlinked

\* C22 as stated: symlinked = true iff the node's own base path or a
\* strict ancestor's is a symlink.
C22_SymlinkedSelfOrAncestor ==
    Classified
    => \A n \in DOMAIN tree :
          tree[n].symlinked <=> (islink(fs0, tree[n].path) \/ BehindSymlink(n))


-----------------------------------------------------------------------------
\* When the invocation began the base path of node n held a symlink whose
\* text, read from the directory of the link and normalised without
\* looking at the disk, is n's original path.
LinkedToOriginal(n) ==
    LET p == tree[n].path
    IN  /\ islink(fs0, p)
        /\ abspath(IF readlink(fs0, p).abs THEN readlink(fs0, p).comps
                   ELSE Parent(p) \o readlink(fs0, p).comps)
           = tree[n].original_path

\* C23: after the overlaid pass a node is overlaid iff it is not
\* symlinked, its base path holds a symlink to its original path and the
\* form of the link (relative or absolute) is the one relative_links asks
\* for; nothing beneath a link to the original path is overlaid.
C23_OverlaidIffRightLink ==
    Classified
    => \A n \in DOMAIN tree :
          /\ tree[n].overlaid
             <=> /\ ~tree[n].symlinked
                 /\ LinkedToOriginal(n)
                 /\ ~readlink(fs0, tree[n].path).abs = params.relative_links
          /\ (~tree[n].symlinked /\ LinkedToOriginal(n))
             => \A m \in Sub(tree, n) \ {n} : ~tree[m].overlaid

\* A link to the original path in the right form, and one in the wrong
\* form at a directory with an entry beneath.
C23_Witness ==
    /\ Classified
    /\ \E n \in DOMAIN tree : tree[n].overlaid
    /\ \E n \in DOMAIN tree :
          /\ LinkedToOriginal(n) /\ ~tree[n].overlaid /\ ~tree[n].symlinked
          /\ Sub(tree, n) # {n}


-----------------------------------------------------------------------------
\* C24: a node is conflicting iff it is not symlinked, its base path
\* exists and is not a real directory, and the node is neither overlaid
\* nor broken: a foreign file at the base path of an overlay directory is
\* conflicting, a real directory in base never is.
C24_ConflictingIffForeign ==
    Classified
    => \A n \in DOMAIN tree :
          tree[n].conflicting
          <=> /\ ~tree[n].symlinked
              /\ exists(fs0, tree[n].path)
              /\ ~isdir(fs0, tree[n].path)
              /\ ~tree[n].overlaid
              /\ ~tree[n].broken


-----------------------------------------------------------------------------
\* The names of everything that lay on disk beneath path p when the
\* invocation began, at any depth (what lies behind a symlink found
\* beneath p is not beneath p).
EntriesUnder(p) ==
    LET top == Loc(fs0, p, TRUE).path
    IN  {p \o SubSeq(q, Len(top) + 1, Len(q)) :
            q \in {r \in DOMAIN fs0 : IsPrefix(top, r) /\ r # top}}

\* Entry e beneath node n may go when n becomes one symlink.
Replaceable(n, e) ==
    \/ isdir(fs0, e)
    \/ points_into(fs0, e, params.overlay_dir)
    \/ /\ params.conflict = "replace"
       /\ \E t \in Sub(tree, n) : tree[t].path = e

\* C25: a directory node that exists in base is collapsible only if every
\* entry on disk beneath its base path, whatever its kind, is a real
\* directory, a symlink into the overlay or (with replace) the path of a
\* node of its subtree.
C25_CollapsibleOnlyIfAllReplaceable ==
    Classified
    => \A n \in DOMAIN tree :
          (tree[n].is_dir /\ osp_isdir(fs0, tree[n].path) /\ tree[n].collapsible)
          => \A e \in EntriesUnder(tree[n].path) : Replaceable(n, e)


-----------------------------------------------------------------------------
\* The rule that makes node n removable of itself.
RemovableRule(n) ==
    \/ tree[n].broken
    \/ /\ params.collapse /\ tree[n].collapsible
       /\ exists(fs0, tree[n].path) /\ ~tree[n].collapsed
    \/ (~params.collapse /\ tree[n].collapsed)
    \/ (params.conflict = "replace" /\ tree[n].conflicting)

\* C26: to_remove holds exactly the nodes that satisfy the removable rule
\* and have no removable strict ancestor, and so no node beneath another
\* of its nodes.
C26_RemoveTopmostRemovable ==
    Planned
    => /\ Range(remove) =
             {n \in DOMAIN tree :
                 RemovableRule(n) /\ \A a \in Anc(tree, n) : ~tree[a].removable}
       /\ TopLevelOnly(remove)

\* A planned removal of a directory with a node beneath it that satisfies
\* the rule too, next to a removal under another clause of the rule.
C26_Witness ==
    /\ Planned
    /\ \E n \in Range(remove), m \in DOMAIN tree :
          n \in Anc(tree, m) /\ RemovableRule(m)
    /\ \E n \in Range(remove) : tree[n].conflicting


-----------------------------------------------------------------------------
\* Node n is to be linked and can be: it is missing from base or will be
\* removed, and is no directory or a directory that is collapsed.
LinkRule(n) ==
    /\ \/ (~tree[n].symlinked /\ ~tree[n].overlaid /\ ~tree[n].conflicting)
       \/ tree[n].removable
    /\ (~tree[n].is_dir \/ (params.collapse /\ tree[n].collapsible))

\* C27: a node has link = true iff none of its strict ancestors has and
\* the node satisfies the link rule; no node in to_link lies beneath
\* another.
C27_LinkTopmostLinkable ==
    Classified
    => /\ \A n \in DOMAIN tree :
             tree[n].link
             <=> (\A a \in Anc(tree, n) : ~tree[a].link) /\ LinkRule(n)
       /\ Planned
          => /\ Range(link) = {n \in DOMAIN tree : tree[n].link}
             /\ TopLevelOnly(link)

\* A directory is linked whole with a linkable leaf beneath it, and a
\* leaf is linked on its own.
C27_Witness ==
    /\ Planned
    /\ \E n, m \in DOMAIN tree :
          n \in Anc(tree, m) /\ tree[n].link /\ LinkRule(m) /\ ~tree[m].link
    /\ \E n \in Range(link) : ~tree[n].is_dir


-----------------------------------------------------------------------------
\* C28: every node in to_link is also in to_sync_stat, in every plan,
\* those that take a directory link apart included.
C28_EveryLinkResynced == Planned => Range(link) \subseteq Range(stat)


-----------------------------------------------------------------------------
\* Node n is linked by the plan or is already the right link.
LinkOrOverlaid(n) == tree[n].link \/ tree[n].overlaid

\* C29: every node in to_sync_stat is link or overlaid or has a node
\* beneath it that is; a directory with nothing linked or overlaid
\* beneath it is not in to_sync_stat, whatever its mode and owner.
C29_StatOnlyAboveLinks ==
    Planned
    => /\ Range(stat) = {n \in DOMAIN tree : tree[n].stat}
       /\ \A n \in Range(stat) : \E m \in Sub(tree, n) : LinkOrOverlaid(m)

\* A real directory in base whose mode or owner differs from the
\* overlay's, once with nothing linked or overlaid beneath it and left
\* alone, once above a link and in to_sync_stat.
C29_Witness ==
    /\ Planned
    /\ \E n \in DOMAIN tree :
          /\ tree[n].is_dir /\ isdir(fs0, tree[n].path)
          /\ lstat(fs0, tree[n].path).perm # lstat(fs0, n).perm
             \/ lstat(fs0, tree[n].path).uid # lstat(fs0, n).uid
          /\ \A m \in Sub(tree, n) : ~LinkOrOverlaid(m)
          /\ n \notin Range(stat)


-----------------------------------------------------------------------------
\* The pairs of a node and one of its descendants.
Below == {nm \in (DOMAIN tree) \X (DOMAIN tree) : nm[1] \in Anc(tree, nm[2])}

\* C30: where a pass with stop semantics decides its fact on a node and
\* stops, every descendant ends the pass with the value the pass hands
\* down, which no look at the disk decides: true beneath a symlink for
\* symlinked, false for overlaid, not symlinked for collapsible, true
\* (the node's own value) for removable, false beneath a node marked
\* remove, link, or link or overlaid for stat.
C30_StopHandsDownFixedValue ==
    Classified
    => \A nm \in Below :
          LET n == nm[1]
              m == nm[2]
          IN  /\ (~tree[n].symlinked /\ islink(fs0, tree[n].path))
                 => tree[m].symlinked
              /\ (tree[n].symlinked \/ LinkedToOriginal(n)) => ~tree[m].overlaid
              /\ tree[n].collapsible
                 => (tree[m].collapsible <=> ~tree[m].symlinked)
              /\ tree[n].removable => tree[m].removable
              /\ tree[n].remove => ~tree[m].remove
              /\ tree[n].link => ~tree[m].link
              /\ LinkOrOverlaid(n) => ~tree[m].stat

\* A directory that is collapsible, removed, linked whole and synced, with
\* a node beneath it.
C30_Witness ==
    /\ Classified
    /\ \E nm \in Below :
          /\ tree[nm[1]].collapsible /\ tree[nm[1]].remove
          /\ tree[nm[1]].link /\ tree[nm[1]].stat
          /\ tree[nm[2]].removable /\ ~tree[nm[2]].link

\* C30 as stated: every descendant of the node a pass stopped at ends the
\* pass with the node's own value of the fact.
C30_StopHandsDownSameValue ==
    Classified
    => \A nm \in Below :
          LET n == nm[1]
              m == nm[2]
          IN  /\ (~tree[n].symlinked /\ islink(fs0, tree[n].path))
                 => tree[m].symlinked = tree[n].symlinked
              /\ (tree[n].symlinked \/ LinkedToOriginal(n))
                 => tree[m].overlaid = tree[n].overlaid
              /\ tree[n].collapsible => tree[m].collapsible = tree[n].collapsible
              /\ tree[n].removable => tree[m].removable = tree[n].removable
              /\ tree[n].remove => tree[m].remove = tree[n].remove
              /\ tree[n].link => tree[m].link = tree[n].link
              /\ LinkOrOverlaid(n) => tree[m].stat = tree[n].stat


-----------------------------------------------------------------------------
\* C39: clean reports changed = true exactly when its removed list is not
\* empty, in check mode too.
C39_CleanChangedIffRemoved ==
    (pc = "done" /\ run >= 1 /\ exists(fs0, params.path))
    => (result.changed <=> result.removed # <<>>)


-----------------------------------------------------------------------------
\* The classifier passes one at a time, as main calls them ("Mark tree
\* properties" and "Mark planned actions").

\* The same calls with mark_broken ahead of mark_overlaid.
Pipeline_brokenfirst ==
    <<"symlinked", "broken", "overlaid", "conflicting", "collapsed",
      "collapsible", "removable", "remove", "link", "stat">>

\* The order of the calls in main; a pass is named by the fact it writes.
Pipeline ==
    <<"symlinked", "overlaid", "broken", "conflicting", "collapsed",
      "collapsible", "removable", "remove", "link", "stat">>

\* tree.props[...] in the body of each pass: the facts it may read
\* (Python's and/or may cut a read short; main's order has to serve every
\* one of them).
Reads(fact) ==
    CASE fact = "symlinked" -> {}
      [] fact = "overlaid" -> {"symlinked", "original_path"}
      [] fact = "broken" -> {"symlinked", "overlaid"}
      [] fact = "conflicting" -> {"symlinked", "is_dir", "overlaid", "broken"}
      [] fact = "collapsed" -> {"is_dir", "overlaid"}
      [] fact = "collapsible" -> {"symlinked", "is_dir", "conflicting"}
      [] fact = "removable" -> {"broken", "collapsible", "collapsed", "conflicting"}
      [] fact = "remove" -> {"removable"}
      [] fact = "link" -> {"collapsible", "symlinked", "overlaid", "conflicting",
                           "removable", "is_dir"}
      [] fact = "stat" -> {"link", "overlaid", "original_path"}

run_pass(fact, F, T, par, P) ==
    CASE fact = "symlinked" -> mark_symlinked(F, T)
      [] fact = "overlaid" -> mark_overlaid(F, T, par.relative_links)
      [] fact = "broken" -> mark_broken(F, T, par.overlay_dir)
      [] fact = "conflicting" -> mark_conflicting(F, T)
      [] fact = "collapsed" -> mark_collapsed(T)
      [] fact = "collapsible" ->
            mark_collapsible(F, T, par.conflict = "replace", par.overlay_dir)
      [] fact = "removable" ->
            mark_removable(F, T, par.collapse, par.conflict = "replace")
      [] fact = "remove" -> mark_remove(T)
      [] fact = "link" -> mark_link(T, par.collapse)
      [] fact = "stat" -> mark_stat(F, T, P)

\* main, "Find directory tree of interest".
StartPasses ==
    /\ pc = "idle"
    /\ run < MaxRuns
    /\ run' = run + 1
    /\ tree' = translate(fs, params.overlay_dir, params.base_dir)
    /\ idx' = 1
    /\ pc' = "passes"
    /\ fs0' = fs
    /\ UNCHANGED <<call, fs, params, check_mode, platform, backup_dir, remove,
                   link, stat, result, prev, listing>>

\* The next call of a pass; reading a fact no pass has written on a node
\* is a KeyError.
RunPass ==
    /\ pc = "passes"
    /\ LET fact == Pipeline[idx]
           written == \A n \in DOMAIN tree : Reads(fact) \subseteq DOMAIN tree[n]
       IN  IF written
           THEN /\ tree' = run_pass(fact, fs, tree, params, platform)
                /\ pc' = IF idx = Len(Pipeline) THEN "classified" ELSE "passes"
           ELSE /\ tree' = tree
                /\ pc' = "crashed"
    /\ idx' = idx + 1
    /\ UNCHANGED <<call, fs, params, check_mode, platform, run, backup_dir,
                   remove, link, stat, result, fs0, prev, listing>>

\* An overlay three levels deep, /o/d/e/f beside /o/g, over a base_dir
\* whose d, d/e and d/e/f may each hold anything a base path can hold.
DeepWorlds ==
    LET d == <<"d">>
        e == <<"d", "e">>
        f == <<"d", "e", "f">>
        overlay == (O :> OldDir) @@ (O \o d :> OldDir) @@ (O \o e :> OldDir)
                   @@ (O \o f :> OldFile) @@ (O \o <<"g">> :> OldFile)
        opts(p) == LeafOpts(B \o p, O \o p, O \o <<"g">>)
        bases ==
            {At(B \o d, x) : x \in opts(d) \ {OldDir}}
            \cup {At(B \o d, OldDir) @@ At(B \o e, x) : x \in opts(e) \ {OldDir}}
            \cup {At(B \o d, OldDir) @@ At(B \o e, OldDir) @@ At(B \o f, x) :
                     x \in opts(f)}
    IN  {[base_dir |-> B, overlay_dir |-> O,
          fs |-> Outside @@ (B :> OldDir) @@ overlay @@ b] : b \in bases}

InitDeep == InitOf(DeepWorlds, Configs({"keep", "replace"}, NoBackup), {Linux})
SpecDeep == InitDeep /\ [][Next]_vars

InitPasses ==
    InitOf(Worlds(DefaultMeta) \cup DeepWorlds,
           Configs({"keep", "replace"}, NoBackup), {Linux})

NextPasses == StartPasses \/ RunPass

SpecPasses == InitPasses /\ [][NextPasses]_vars

\* The facts of the ten passes.
TenFacts ==
    {"symlinked", "overlaid", "broken", "conflicting", "collapsed",
     "collapsible", "removable", "remove", "link", "stat"}

\* The facts node n carries.
FactsOf(n) == DOMAIN tree[n] \cap TenFacts

\* C31: with the passes in main's order every fact a pass reads on a node
\* was written on it by an earlier pass, so no pass meets an unset fact;
\* before the k-th pass every node carries the facts of the k - 1 passes
\* before it, and after the last all ten.
C31_PassesReadWrittenFacts ==
    /\ pc # "crashed"
    /\ pc \in {"passes", "classified"}
       => /\ \A n \in DOMAIN tree :
                FactsOf(n) = {Pipeline[k] : k \in 1..(idx - 1)}
          /\ pc = "passes"
             => \A n \in DOMAIN tree :
                   Reads(Pipeline[idx]) \cap TenFacts \subseteq FactsOf(n)
          /\ pc = "classified" => \A n \in DOMAIN tree : FactsOf(n) = TenFacts

\* All ten passes have run on a tree three levels deep.
C31_Witness ==
    /\ pc = "classified"
    /\ \E n, m \in DOMAIN tree : Len(m) >= Len(n) + 2
    /\ \E n \in DOMAIN tree : tree[n].stat
    /\ \E n \in DOMAIN tree : tree[n].symlinked


-----------------------------------------------------------------------------
\* Node n is linked by the plan, itself or as part of a node above it.
CoveredByLink(n) == \E a \in Anc(tree, n) \cup {n} : tree[a].link

\* The link plan covers the removed node n again.
Recovered(n) ==
    \/ tree[n].link
    \/ /\ tree[n].is_dir
       /\ \A m \in Sub(tree, n) : ~tree[m].is_dir => CoveredByLink(m)

\* C32: every node in to_remove is covered again by the link plan, and
\* after the run its base path exists again.
C32_RemovedIsRecovered ==
    /\ Planned => \A n \in Range(remove) : Recovered(n)
    /\ Succeeded => \A n \in Range(remove) : exists(fs, tree[n].path)


-----------------------------------------------------------------------------
\* What lay at the base path of node n when the invocation began has a
\* copy at the node's backup path: the same kind of entry, with the data
\* of a file, the text of a symlink, the entries of a directory.
HasBackupCopy(n) ==
    LET p == tree[n].path
        q == BackupPath(n)
    IN  /\ q \in DOMAIN fs
        /\ fs[q].kind = fs0[p].kind
        /\ fs[q].data = fs0[p].data
        /\ fs[q].text = fs0[p].text
        /\ \A r \in DOMAIN fs0 :
              IsPrefix(p, r)
              => (q \o SubSeq(r, Len(p) + 1, Len(r))) \in DOMAIN fs

\* C33: with backup_dir set, when a conflicting node of to_remove is about
\* to be deleted a copy of what occupies its base path, be it a file, a
\* symlink or a directory, is at its backup path, and backed_up lists
\* exactly the backup paths of those nodes.
C33_ConflictingCopiedBeforeDelete ==
    (Planned /\ backup_dir # <<>>)
    => /\ (pc = "delete" /\ tree[remove[idx]].conflicting)
          => HasBackupCopy(remove[idx])
       /\ Range(result.backed_up) =
             {BackupPath(n) : n \in {m \in Range(remove) : tree[m].conflicting}}


-----------------------------------------------------------------------------
\* The strict ancestors of path p that lie inside base_dir.
BaseAncestors(p) ==
    {SubSeq(p, 1, k) : k \in (Len(params.base_dir) + 1)..(Len(p) - 1)}

\* C34: a plan that reaches execution can be executed: the path of a
\* to_remove node exists when remove_trees reaches it, and when
\* create_links reaches a to_link node its base path is vacant and every
\* ancestor of it inside base_dir that exists is a real directory.
C34_PlanExecutable ==
    /\ pc \in {"backup", "delete"} => exists(fs, tree[remove[idx]].path)
    /\ pc = "link"
       => /\ ~exists(fs, tree[link[idx]].path)
          /\ \A a \in BaseAncestors(tree[link[idx]].path) :
                exists(fs, a) => isdir(fs, a)


-----------------------------------------------------------------------------
\* The base path of node n holds a symlink to the node's original path,
\* written relative to the link's directory if relative_links is set and
\* absolute if not.
LinkAsAsked(n) ==
    LET p == tree[n].path
    IN  /\ islink(fs, p)
        /\ readlink(fs, p).abs = ~params.relative_links
        /\ IF params.relative_links
           THEN abspath(Parent(p) \o readlink(fs, p).comps) = tree[n].original_path
           ELSE readlink(fs, p).comps = tree[n].original_path

\* C35: after a successful real run every path in created_links is a
\* symlink to the node's original path in the form relative_links asks
\* for, and the run that follows classifies the node as overlaid and not
\* symlinked.
C35_CreatedLinksAreOverlaid ==
    /\ Succeeded => \A n \in Range(link) : LinkAsAsked(n)
    /\ (run >= 2 /\ prev.pc = "done" /\ ~prev.check_mode /\ Classified)
       => \A n \in DOMAIN tree :
             tree[n].path \in Range(prev.result.created_links)
             => ~tree[n].symlinked /\ tree[n].overlaid

\* The run after one that created a relative link to a directory or
\* links to several entries has classified its tree.
C35_Witness ==
    /\ run >= 2 /\ prev.pc = "done" /\ ~prev.check_mode /\ Classified
    /\ params.relative_links
    /\ Len(prev.result.created_links) >= 2
    /\ \E n \in DOMAIN tree :
          tree[n].path \in Range(prev.result.created_links) /\ tree[n].overlaid


-----------------------------------------------------------------------------
\* The part of path p below base.
Below_base(p, base) == SubSeq(p, Len(base) + 1, Len(p))

-----------------------------------------------------------------------------
\* Tree.apply and Tree.apply_children on their own.  A tree is the set of
\* the paths of its nodes, the receiver included; ret is what the visitor
\* returns on each node: "True", "False" or "None".

\* tree.children, in the order os.listdir gave them.
children(T, n) == PreOrder({m \in T : m # <<>> /\ Parent(m) = n /\ m # n})

\* Tree.apply that goes on into the children whatever the visitor returns.
RECURSIVE Tree_apply_nostop(_, _, _, _, _)
Tree_apply_nostop(T, ret, stopping, n, acc) ==
    LET RECURSIVE each(_, _)
        each(kids, a) ==
            IF kids = <<>> THEN a
            ELSE each(Tail(kids), Tree_apply_nostop(T, ret, stopping, Head(kids), a))
    IN  each(children(T, n), [visited |-> Append(acc.visited, n), err |-> ""])

\* Tree.apply: func(self), the assertion on what it returned, then the
\* children.  acc is the run so far: the nodes func was applied to, in
\* order, and the exception raised ("" if none), which ends the run.
RECURSIVE Tree_apply(_, _, _, _, _)
Tree_apply(T, ret, stopping, n, acc) ==
    LET RECURSIVE each(_, _)
        each(kids, a) ==
            IF kids = <<>> THEN a
            ELSE each(Tail(kids), Tree_apply(T, ret, stopping, Head(kids), a))
        seen == Append(acc.visited, n)
    IN  IF acc.err # "" THEN acc
        ELSE IF stopping /\ ret[n] = "None"
        THEN [visited |-> seen, err |-> "AssertionError"]
        ELSE IF ~stopping \/ ret[n] = "True"
        THEN each(children(T, n), [visited |-> seen, err |-> ""])
        ELSE [visited |-> seen, err |-> ""]

\* Tree.apply_children: apply on every child of the receiver.
RECURSIVE Tree_apply_children(_, _, _, _, _)
Tree_apply_children(T, ret, stopping, kids, acc) ==
    IF kids = <<>> THEN acc
    ELSE Tree_apply_children(T, ret, stopping, Tail(kids),
                             Tree_apply(T, ret, stopping, Head(kids), acc))

\* The trees applied to: the receiver /o with any of d, d/e, d/e/f, d/f
\* and g beneath it.
ApplyTrees ==
    LET all == {O \o <<"d">>, O \o <<"d", "e">>, O \o <<"d", "e", "f">>,
                O \o <<"d", "f">>, O \o <<"g">>}
    IN  {{O} \cup S : S \in {X \in SUBSET all :
                                \A m \in X : Len(m) > 2 => Parent(m) \in X}}

InitApply ==
    /\ \E T \in ApplyTrees, s \in BOOLEAN :
          \E r \in [T -> {"True", "False", "None"}] :
             call = [fn |-> "apply_children", nodes |-> T, ret |-> r,
                     stopping |-> s, returned |-> FALSE]
    /\ listing \in Orders
    /\ fs = EmptyTree /\ fs0 = EmptyTree
    /\ params = [base_dir |-> <<>>, overlay_dir |-> O]
    /\ platform = Linux
    /\ check_mode = FALSE
    /\ run = 0
    /\ pc = "idle"
    /\ backup_dir = <<>>
    /\ tree = EmptyTree
    /\ remove = <<>> /\ link = <<>> /\ stat = <<>>
    /\ idx = 1
    /\ result = NoResult
    /\ prev = [pc |-> "idle", check_mode |-> FALSE, result |-> NoResult]

ApplyChildren ==
    /\ call.fn = "apply_children" /\ ~call.returned
    /\ call' = [returned |-> TRUE,
                out |-> Tree_apply_children(call.nodes, call.ret, call.stopping,
                                            children(call.nodes, O),
                                            [visited |-> <<>>, err |-> ""])]
               @@ call
    /\ UNCHANGED <<fs, params, check_mode, platform, run, pc, backup_dir, tree,
                   remove, link, stat, idx, result, fs0, prev, listing>>

SpecApply == InitApply /\ [][ApplyChildren]_vars

\* The nodes below the receiver on all of whose strict ancestors below the
\* receiver the visitor returns True, in pre-order.
Reached ==
    PreOrder({n \in call.nodes \ {O} :
                 \A a \in call.nodes \ {O} :
                    (IsPrefix(a, n) /\ a # n) => call.ret[a] = "True"})

\* C37: apply_children with stopping = true applies the visitor in
\* pre-order to exactly the nodes below the receiver on whose strict
\* ancestors it returned true, never to the receiver, and ends with an
\* AssertionError at the first node on which it returns no boolean.
C37_ApplyStopsAndSkipsReceiver ==
    (call.fn = "apply_children" /\ call.returned /\ call.stopping)
    => LET nones == {i \in 1..Len(Reached) : call.ret[Reached[i]] = "None"}
           first == CHOOSE i \in nones : \A j \in nones : i <= j
       IN  /\ O \notin Range(call.out.visited)
           /\ IF nones = {}
              THEN call.out = [visited |-> Reached, err |-> ""]
              ELSE call.out = [visited |-> SubSeq(Reached, 1, first),
                               err |-> "AssertionError"]

\* The visitor stopped above a node it would have returned True on, went
\* on elsewhere, and the run ended without an exception.
C37_Witness ==
    /\ call.fn = "apply_children" /\ call.returned /\ call.stopping
    /\ call.out.err = ""
    /\ Len(call.out.visited) >= 3
    /\ \E n \in call.nodes \ {O} :
          /\ n \notin Range(call.out.visited)
          /\ call.ret[n] = "True"
    /\ call.ret[O] = "False"


-----------------------------------------------------------------------------
\* change_stats on links whose overlay entry is itself a symlink.

\* An overlay whose entry g is a symlink, to the file /x/y or dangling,
\* beside directory d holding file f; the base path of g as in the other
\* worlds.
LinkedOverlayWorlds ==
    {[base_dir |-> B, overlay_dir |-> O,
      fs |-> Outside @@ (B :> OldDir) @@ (O :> DirEntry(m.perm, m.uid))
             @@ (O \o <<"d">> :> DirEntry(m.perm, m.uid))
             @@ (O \o <<"d", "f">> :> FileEntry("new f", m.perm, m.uid))
             @@ (O \o <<"g">> :> LinkEntry(AbsText(t), m.perm, m.uid))
             @@ At(B \o <<"g">>, g)] :
        m \in Metas, t \in {<<"x", "y">>, <<"z">>}, g \in GOpts}

InitLinkedOverlay ==
    InitOf(LinkedOverlayWorlds, Configs({"replace"}, NoBackup), Platforms)
SpecLinkedOverlay == InitLinkedOverlay /\ [][Next]_vars

\* os.stat(p) after change_stats: whether p resolves, and to which entry.
Resolves(p) == LET loc == Loc(fs, p, TRUE) IN loc.ok /\ KindAt(fs, loc) # "none"
StatAfter(p) == fs[Loc(fs, p, TRUE).path]

\* C38: after change_stats every to_sync_stat node whose base path is a
\* symlink carries the overlay entry's mode and owner on the link itself
\* where the platform can set them without following, and on the link's
\* target where it cannot; a node whose base path is no symlink carries
\* them itself.
C38_StatAppliedToLinkOrTarget ==
    (pc = "done" /\ run >= 1 /\ ~check_mode)
    => \A n \in Range(stat) :
          LET st == lstat(fs, tree[n].original_path)
          IN  IF islink(fs, tree[n].path)
              THEN /\ IF platform.lchmod
                      THEN lstat(fs, tree[n].path).perm = st.perm
                      ELSE /\ Resolves(tree[n].path)
                           /\ StatAfter(tree[n].path).perm = st.perm
                   /\ IF platform.lchown
                      THEN lstat(fs, tree[n].path).uid = st.uid
                      ELSE /\ Resolves(tree[n].path)
                           /\ StatAfter(tree[n].path).uid = st.uid
              ELSE /\ StatAfter(tree[n].path).perm = st.perm
                   /\ StatAfter(tree[n].path).uid = st.uid


\* The mode a symlink at the node's base path had before change_stats:
\* that of a link just created, or that of the link found there.
LinkPermBefore(n) ==
    IF n \in Range(link) THEN DefaultPerm ELSE lstat(fs0, tree[n].path).perm
LinkUidBefore(n) ==
    IF n \in Range(link) THEN ProcUid ELSE lstat(fs0, tree[n].path).uid

\* C38: after change_stats every to_sync_stat node whose base path is a
\* symlink carries the overlay entry's mode and owner on the link itself
\* where the platform can set them without following; where it cannot,
\* the link keeps its own and the entry the link resolves to keeps the
\* ones it had; a node whose base path is no symlink carries the overlay
\* entry's mode and owner itself.
C38_StatAppliedWhereSupported ==
    (pc = "done" /\ run >= 1 /\ ~check_mode)
    => \A n \in Range(stat) :
          LET st == lstat(fs, tree[n].original_path)
              target == Loc(fs, tree[n].path, TRUE).path
          IN  IF islink(fs, tree[n].path)
              THEN /\ IF platform.lchmod
                      THEN lstat(fs, tree[n].path).perm = st.perm
                      ELSE /\ lstat(fs, tree[n].path).perm = LinkPermBefore(n)
                           /\ Resolves(tree[n].path)
                              => fs[target].perm = fs0[target].perm
                   /\ IF platform.lchown
                      THEN lstat(fs, tree[n].path).uid = st.uid
                      ELSE /\ lstat(fs, tree[n].path).uid = LinkUidBefore(n)
                           /\ Resolves(tree[n].path)
                              => fs[target].uid = fs0[target].uid
              ELSE /\ StatAfter(tree[n].path).perm = st.perm
                   /\ StatAfter(tree[n].path).uid = st.uid

\* Without a non-following chmod: the overlay's symlink g has another
\* mode than the file it points to, the link at g's base path went
\* through change_stats, and the file still has its own mode.
C38_Witness ==
    /\ pc = "done" /\ run >= 1 /\ ~check_mode /\ ~platform.lchmod
    /\ O \o <<"g">> \in Range(stat)
    /\ islink(fs, B \o <<"g">>)
    /\ Resolves(B \o <<"g">>)
    /\ lstat(fs, O \o <<"g">>).perm # DefaultPerm
    /\ StatAfter(B \o <<"g">>).perm = DefaultPerm

====
